---- MODULE Spec2Model ----
(***************************************************************************)
(* A model of the minima editor's rendering core: the camera and its       *)
(* controller (crates/minima-camera), the scene renderer                   *)
(* (crates/minima-3d/src/render.rs), the offscreen viewport and the frame  *)
(* coordinator (crates/minima-runtime) and the host application            *)
(* (src/app.rs).                                                           *)
(*                                                                         *)
(* Reals (f32 in the source) are fixed-point integers with SCALE units per *)
(* 1.0: angles in 1e-4 rad, lengths in 1e-4 world units, durations passed  *)
(* to the camera in 1e-4 s.  Instants and Durations are microseconds.      *)
(***************************************************************************)
EXTENDS Integers, Sequences, FiniteSets, TLC

VARIABLES
    cam,        \* OrbitCamera under test (camera specifications)
    ctl,        \* CameraController under test (camera specifications)
    device,     \* wgpu::Device: the number of GPU objects created so far
    vp,         \* Viewport under test (viewport specification)
    renderer,   \* Renderer3D under test (render specification)
    encoder,    \* wgpu::CommandEncoder the renderer under test recorded into
    call,       \* the operation or handler last applied
    app,        \* App.state: Init(Some(proxy)), Init(None) or Ready
    inbox,      \* the Graphics create_graphics sent and user_event has not taken
    gfx,        \* ReadyState.gfx
    ready,      \* ReadyState.egui_renderer and ReadyState.viewport_tex_id
    ui,         \* App.ui: camera_active and cursor_grab_request
    render_target,  \* App.render_target
    clock,      \* Instant::now() and the number of times it advanced
    window,     \* the winit window: size, pending redraw, cursor
    frame,      \* what the last Graphics::draw did
    status      \* the event loop: "running", "exiting" or "panicked"

compVars == <<cam, ctl, device, vp, renderer, encoder>>

hostVars == <<app, inbox, gfx, ready, ui, render_target, clock, window, frame, status>>

vars == <<cam, ctl, device, vp, renderer, encoder, call, app, inbox, gfx, ready, ui,
          render_target, clock, window, frame, status>>

\* the value of a variable a specification does not use
Unused == [unused |-> TRUE]

HostUnused ==
    /\ app = Unused /\ inbox = Unused /\ gfx = Unused /\ ready = Unused
    /\ ui = Unused /\ render_target = Unused /\ clock = Unused
    /\ window = Unused /\ frame = Unused /\ status = Unused

----------------------------------------------------------------------------
(* Fixed-point arithmetic *)

SCALE == 10 ^ 4

\* F applied to the value of v (of v and w), which is computed once
Strict1(v, F(_)) == CHOOSE y \in { F(x) : x \in {v} } : TRUE

Strict2(v, w, F(_, _)) == CHOOSE y \in { F(x1, x2) : x1 \in {v}, x2 \in {w} } : TRUE

Abs(x) == Strict1(x, LAMBDA v : IF v < 0 THEN -v ELSE v)

Max(a, b) == Strict2(a, b, LAMBDA x1, x2 : IF x1 >= x2 THEN x1 ELSE x2)

Min(a, b) == Strict2(a, b, LAMBDA x1, x2 : IF x1 <= x2 THEN x1 ELSE x2)

\* a / b rounded to nearest, symmetric about zero (b > 0)
RoundDiv(a, b) ==
    Strict2(a, b, LAMBDA x1, x2 :
        IF x1 >= 0 THEN (x1 + x2 \div 2) \div x2 ELSE -((-x1 + x2 \div 2) \div x2))

FMul(a, b) == RoundDiv(a * b, SCALE)

\* one step of the bitwise square root: set bit b of r when the square fits
SqrtStep(n, r, b) ==
    Strict1(r, LAMBDA v :
        IF v + b <= 46340 /\ (v + b) * (v + b) <= n THEN v + b ELSE v)

\* the largest r with r * r <= n, for 0 <= n < 2^31
SqrtFloor(n) ==
    LET r15 == SqrtStep(n, 0, 32768)
        r14 == SqrtStep(n, r15, 16384)
        r13 == SqrtStep(n, r14, 8192)
        r12 == SqrtStep(n, r13, 4096)
        r11 == SqrtStep(n, r12, 2048)
        r10 == SqrtStep(n, r11, 1024)
        r9 == SqrtStep(n, r10, 512)
        r8 == SqrtStep(n, r9, 256)
        r7 == SqrtStep(n, r8, 128)
        r6 == SqrtStep(n, r7, 64)
        r5 == SqrtStep(n, r6, 32)
        r4 == SqrtStep(n, r5, 16)
        r3 == SqrtStep(n, r4, 8)
        r2 == SqrtStep(n, r3, 4)
        r1 == SqrtStep(n, r2, 2)
    IN  SqrtStep(n, r1, 1)

\* integer square root of n >= 0, rounded to nearest
ISqrt(n) ==
    Strict1(n, LAMBDA v :
        Strict1(SqrtFloor(v), LAMBDA r :
            IF r < 46340 /\ v - r * r > (r + 1) * (r + 1) - v THEN r + 1 ELSE r))

FRAC_PI_2 == 15708
PI == 2 * FRAC_PI_2
TWO_PI == 4 * FRAC_PI_2

\* the odd-power Taylor term x^(2k+1) / (2k+1)! of sin x, from the term before
SinTerm(prev, x, k) == RoundDiv(FMul(FMul(prev, x), x), (2 * k) * (2 * k + 1))

\* sin on [0, pi/2], Taylor polynomial to x^11
SinQ(x) ==
    Strict1(x, LAMBDA v :
    Strict1(SinTerm(v, v, 1), LAMBDA t1 :
    Strict1(SinTerm(t1, v, 2), LAMBDA t2 :
    Strict1(SinTerm(t2, v, 3), LAMBDA t3 :
    Strict1(SinTerm(t3, v, 4), LAMBDA t4 :
        v - t1 + t2 - t3 + t4 - SinTerm(t4, v, 5))))))

\* f32::sin
Sin(a) ==
    Strict1(a % TWO_PI, LAMBDA r :
        IF r <= FRAC_PI_2 THEN SinQ(r)
        ELSE IF r <= PI THEN SinQ(PI - r)
        ELSE IF r <= PI + FRAC_PI_2 THEN -SinQ(r - PI)
        ELSE -SinQ(TWO_PI - r))

\* f32::cos
Cos(a) == Sin(a + FRAC_PI_2)

----------------------------------------------------------------------------
(* glam::Vec3 *)

Vec3(x, y, z) == <<x, y, z>>

ZERO == Vec3(0, 0, 0)

Y == Vec3(0, SCALE, 0)

VAdd(a, b) ==
    Strict2(a, b, LAMBDA u, v : <<u[1] + v[1], u[2] + v[2], u[3] + v[3]>>)

VSub(a, b) ==
    Strict2(a, b, LAMBDA u, v : <<u[1] - v[1], u[2] - v[2], u[3] - v[3]>>)

\* Vec3 * f32
VScale(a, s) ==
    Strict2(a, s, LAMBDA u, k : <<FMul(u[1], k), FMul(u[2], k), FMul(u[3], k)>>)

\* sum of squares, in SCALE^2 units (not rescaled: only compared with 0 or rooted)
RawLengthSq(a) == Strict1(a, LAMBDA u : u[1] * u[1] + u[2] * u[2] + u[3] * u[3])

Length(a) == ISqrt(RawLengthSq(a))

Cross(a, b) ==
    Strict2(a, b, LAMBDA u, v :
        << FMul(u[2], v[3]) - FMul(u[3], v[2]),
           FMul(u[3], v[1]) - FMul(u[1], v[3]),
           FMul(u[1], v[2]) - FMul(u[2], v[1]) >>)

\* Vec3::normalize: v * (1 / |v|)
Normalize(a) ==
    Strict1(a, LAMBDA u :
        Strict1(Length(u), LAMBDA len :
            << RoundDiv(u[1] * SCALE, len),
               RoundDiv(u[2] * SCALE, len),
               RoundDiv(u[3] * SCALE, len) >>))

----------------------------------------------------------------------------
(* crates/minima-camera/src/lib.rs *)

\* forward_from_yaw_pitch with the x and z components exchanged
ForwardAxesExchanged(yaw, pitch) ==
    Strict2(Cos(pitch), Sin(pitch), LAMBDA cp, sp :
        Strict2(Cos(yaw), Sin(yaw), LAMBDA cy, sy :
            Vec3(FMul(-sy, cp), sp, FMul(cy, cp))))

\* forward_from_yaw_pitch (lib.rs:6-12)
forward_from_yaw_pitch(yaw, pitch) ==
    Strict2(Cos(pitch), Sin(pitch), LAMBDA cp, sp :
        Strict2(Cos(yaw), Sin(yaw), LAMBDA cy, sy :
            Vec3(FMul(cy, cp), sp, FMul(-sy, cp))))

OrbitCamera_new(eye, yaw, pitch) == [eye |-> eye, yaw |-> yaw, pitch |-> pitch]

CameraController_new(base_speed) ==
    [ move_forward |-> FALSE, move_back |-> FALSE, move_left |-> FALSE,
      move_right |-> FALSE, move_up |-> FALSE, move_down |-> FALSE,
      boost_speed |-> FALSE, base_speed |-> base_speed ]

Flags ==
    { "move_forward", "move_back", "move_left", "move_right",
      "move_up", "move_down", "boost_speed" }

\* winit KeyCode values the models use; KeyQ and Escape stand for the keys
\* the controller does not map
KeyCodes ==
    { "KeyW", "KeyS", "KeyA", "KeyD", "KeyJ", "KeyK", "ShiftLeft",
      "Escape", "KeyQ" }

\* PhysicalKey::Code(code), or PhysicalKey::Unidentified(_)
PhysicalKeys == KeyCodes \cup {"Unidentified"}

KeyboardInput(key, state, repeat) ==
    [type |-> "KeyboardInput", physical_key |-> key, state |-> state, repeat |-> repeat]

KeyboardEvents ==
    { KeyboardInput(k, s, r) :
        k \in PhysicalKeys, s \in {"Pressed", "Released"}, r \in BOOLEAN }

\* the flag a key code is matched to (lib.rs:67-76), "" for the `_` arm
KeyFlag(code) ==
    CASE code = "KeyW" -> "move_forward"
      [] code = "KeyS" -> "move_back"
      [] code = "KeyA" -> "move_left"
      [] code = "KeyD" -> "move_right"
      [] code = "KeyJ" -> "move_up"
      [] code = "KeyK" -> "move_down"
      [] code = "ShiftLeft" -> "boost_speed"
      [] OTHER -> ""

\* CameraController::handle_window_event: the controller after the event
\* (the camera argument is unused)
HandleWindowEventNoRepeatCheck(c, event) ==
    IF event.type = "KeyboardInput" /\ event.physical_key \in KeyCodes
    THEN LET pressed == (event.state = "Pressed")
             flag == KeyFlag(event.physical_key)
         IN  IF flag = "" THEN c ELSE [c EXCEPT ![flag] = pressed]
    ELSE c

CameraController_handle_window_event(c, event) ==
    IF event.type = "KeyboardInput" /\ event.physical_key \in KeyCodes
    THEN IF event.repeat THEN c
         ELSE LET pressed == (event.state = "Pressed")
                  flag == KeyFlag(event.physical_key)
              IN  IF flag = "" THEN c ELSE [c EXCEPT ![flag] = pressed]
    ELSE c

MouseMotion(dx, dy) == [type |-> "MouseMotion", dx |-> dx, dy |-> dy]

sensitivity == 25

\* 0.01, the margin kept from the poles (lib.rs:87)
PitchMargin == 100

max_pitch == FRAC_PI_2 - PitchMargin

\* f32::clamp
Clamp(x, lo, hi) == IF x < lo THEN lo ELSE IF x > hi THEN hi ELSE x

\* handle_device_event that clamps pitch at the poles (deltas are whole
\* device units)
HandleDeviceEventClampAtPole(c, event) ==
    IF event.type = "MouseMotion"
    THEN [c EXCEPT !.yaw = c.yaw - event.dx * sensitivity,
                   !.pitch = Clamp(c.pitch - event.dy * sensitivity,
                                   -FRAC_PI_2, FRAC_PI_2)]
    ELSE c

\* handle_device_event that clamps yaw as it clamps pitch
HandleDeviceEventClampYaw(c, event) ==
    IF event.type = "MouseMotion"
    THEN [c EXCEPT !.yaw = Clamp(c.yaw - event.dx * sensitivity,
                                 -max_pitch, max_pitch),
                   !.pitch = Clamp(c.pitch - event.dy * sensitivity,
                                   -max_pitch, max_pitch)]
    ELSE c

\* CameraController::handle_device_event: the camera after the event
CameraController_handle_device_event(c, event) ==
    IF event.type = "MouseMotion"
    THEN [c EXCEPT !.yaw = c.yaw - event.dx * sensitivity,
                   !.pitch = Clamp(c.pitch - event.dy * sensitivity,
                                   -max_pitch, max_pitch)]
    ELSE c

\* 5.0, the boost factor (lib.rs:129)
BoostFactor == 5 * SCALE

\* the forward axis of update, normalised without being flattened
ForwardNotFlattened(camera) ==
    Strict1(forward_from_yaw_pitch(camera.yaw, camera.pitch), LAMBDA forward :
        IF RawLengthSq(forward) > 0 THEN Normalize(forward) ELSE forward)

\* the ground-plane forward axis of update (lib.rs:95-99)
FlatForward(camera) ==
    Strict1(forward_from_yaw_pitch(camera.yaw, camera.pitch), LAMBDA forward :
        Strict1(Vec3(forward[1], 0, forward[3]), LAMBDA flat_forward :
            IF RawLengthSq(flat_forward) > 0 THEN Normalize(flat_forward)
            ELSE flat_forward))

\* the right axis of update (lib.rs:101-104)
Right(flat_forward) ==
    Strict1(Cross(flat_forward, Y), LAMBDA right :
        IF RawLengthSq(right) > 0 THEN Normalize(right) ELSE right)

\* the movement vector accumulated from the flags (lib.rs:93, 106-123)
Accumulate(c, flat_forward, right) ==
    LET m1 == IF c.move_forward THEN VAdd(ZERO, flat_forward) ELSE ZERO
        m2 == IF c.move_back THEN VSub(m1, flat_forward) ELSE m1
        m3 == IF c.move_right THEN VAdd(m2, right) ELSE m2
        m4 == IF c.move_left THEN VSub(m3, right) ELSE m3
        m5 == IF c.move_up THEN VAdd(m4, Y) ELSE m4
        m6 == IF c.move_down THEN VSub(m5, Y) ELSE m5
    IN  m6

\* the accumulated movement vector of update (lib.rs:93-123)
Movement(c, camera) ==
    Strict1(FlatForward(camera), LAMBDA flat_forward :
        Strict1(Right(flat_forward), LAMBDA right :
            Accumulate(c, flat_forward, right)))

\* the speed update scales the unit movement by (lib.rs:127-130)
Speed(c) == IF c.boost_speed THEN FMul(c.base_speed, BoostFactor) ELSE c.base_speed

\* update without the normalisation of the accumulated vector (lib.rs:126)
UpdateNoNormalize(c, camera, dt) ==
    Strict1(Movement(c, camera), LAMBDA movement :
        IF RawLengthSq(movement) > 0
        THEN [camera EXCEPT
                !.eye = VAdd(camera.eye, VScale(VScale(movement, Speed(c)), dt))]
        ELSE camera)

\* CameraController::update: the camera after integrating dt
CameraController_update(c, camera, dt) ==
    Strict1(Movement(c, camera), LAMBDA movement :
        IF RawLengthSq(movement) > 0
        THEN [camera EXCEPT
                !.eye = VAdd(camera.eye,
                             VScale(VScale(Normalize(movement), Speed(c)), dt))]
        ELSE camera)

CAMERA_SPEED == 3 * SCALE

----------------------------------------------------------------------------
(* wgpu objects.  A device hands out object ids in creation order; a texture *)
(* keeps the descriptor it was created with, a view the texture it views.    *)

TextureFormats == {"Bgra8UnormSrgb", "Rgba8UnormSrgb"}

\* device.create_texture
create_texture(id, label, width, height, format, usage) ==
    [ id |-> id, label |-> label, width |-> width, height |-> height,
      format |-> format, usage |-> usage ]

\* texture.create_view
create_view(id, texture) == [id |-> id, texture |-> texture.id]

----------------------------------------------------------------------------
(* crates/minima-runtime/src/lib.rs: Viewport *)

\* GPU objects one Viewport::new creates
ViewportObjects == 4

\* Viewport::new without the clamp of lib.rs:38-39
ViewportNewNoClamp(dev, format, width, height) ==
    LET color == create_texture(dev, "viewport_color", width, height, format,
                                {"RENDER_ATTACHMENT", "TEXTURE_BINDING"})
        depth == create_texture(dev + 2, "viewport_depth", width, height,
                                "Depth32Float", {"RENDER_ATTACHMENT"})
    IN  [ color |-> color, color_view |-> create_view(dev + 1, color),
          depth |-> depth, depth_view |-> create_view(dev + 3, depth),
          width |-> width, height |-> height, format |-> format ]

\* Viewport::new on a device that has created dev objects
Viewport_new(dev, format, width0, height0) ==
    LET width == Max(width0, 1)
        height == Max(height0, 1)
        color == create_texture(dev, "viewport_color", width, height, format,
                                {"RENDER_ATTACHMENT", "TEXTURE_BINDING"})
        color_view == create_view(dev + 1, color)
        depth == create_texture(dev + 2, "viewport_depth", width, height,
                                "Depth32Float", {"RENDER_ATTACHMENT"})
        depth_view == create_view(dev + 3, depth)
    IN  [ color |-> color, color_view |-> color_view,
          depth |-> depth, depth_view |-> depth_view,
          width |-> width, height |-> height, format |-> format ]

\* Viewport::resize that recreates the color target and keeps the depth target
ViewportResizeColorOnly(self, dev, width, height) ==
    [ Viewport_new(dev, self.format, width, height)
        EXCEPT !.depth = self.depth, !.depth_view = self.depth_view ]

\* Viewport::resize that grows the viewport by the size given
ViewportResizeAccumulate(self, dev, width, height) ==
    Viewport_new(dev, self.format, self.width + width, self.height + height)

\* Viewport::resize: *self = Viewport::new(device, self.format, width, height)
Viewport_resize(self, dev, width, height) ==
    Viewport_new(dev, self.format, width, height)

----------------------------------------------------------------------------
(* crates/minima-3d/src/render.rs: Renderer3D *)

\* GPU objects create_depth creates: the depth texture and its view
DepthObjects == 2

\* create_depth(device, width, height): (depth_view, depth_tex)
create_depth(dev, width, height) ==
    LET tex == create_texture(dev, "depth", width, height, "Depth32Float",
                              {"RENDER_ATTACHMENT"})
    IN  [depth_view |-> create_view(dev + 1, tex), depth_tex |-> tex]

\* Renderer3D::new: the pipeline, the camera and model bind groups and buffers
\* are created once and named by their field
Renderer3D_new(dev, surface_format, width, height, model) ==
    LET d == create_depth(dev, width, height)
    IN  [ render_pipeline |-> [format |-> surface_format],
          depth_view |-> d.depth_view, depth_tex |-> d.depth_tex,
          camera_bg |-> "camera_bg", camera_buf |-> "camera_buf",
          model_bg |-> "model_bg", model_buf |-> "model_buf",
          model |-> model ]

\* Renderer3D::resize that also creates a new camera buffer and bind group
RendererResizeRecreatesCamera(self, dev, width, height) ==
    LET d == create_depth(dev, width, height)
    IN  [self EXCEPT !.depth_view = d.depth_view, !.depth_tex = d.depth_tex,
                     !.camera_buf = <<"camera_buf", dev>>,
                     !.camera_bg = <<"camera_bg", dev>>]

\* Renderer3D::resize
Renderer3D_resize(self, dev, width, height) ==
    LET d == create_depth(dev, width, height)
    IN  [self EXCEPT !.depth_view = d.depth_view, !.depth_tex = d.depth_tex]

\* the material index render looks up for a mesh, without the clamp
MaterialIndexNoClamp(material_id, len) == material_id

\* mesh.material_id.min(self.model.materials.len() - 1), for len > 0
MaterialIndex(material_id, len) == Min(material_id, len - 1)

\* the mesh loop of render, skipping the meshes when there is no material
MeshCommandsSkipUnbound(model) ==
    LET n == Len(model.materials)
        F[i \in 0..Len(model.meshes)] ==
            IF i = 0 THEN [commands |-> <<>>, panicked |-> FALSE]
            ELSE LET prev == F[i - 1]
                     mesh == model.meshes[i]
                     idx == MaterialIndex(mesh.material_id, n)
                 IN  IF n = 0 THEN prev
                     ELSE [prev EXCEPT !.commands = @ \o
                            << [cmd |-> "set_bind_group", slot |-> 2,
                                group |-> model.materials[idx + 1].bind_group],
                               [cmd |-> "set_vertex_buffer", slot |-> 0,
                                buffer |-> mesh.vbuf],
                               [cmd |-> "set_index_buffer", buffer |-> mesh.ibuf,
                                format |-> "Uint32"],
                               [cmd |-> "draw_indexed", first |-> 0,
                                count |-> mesh.index_count, base_vertex |-> 0,
                                instances |-> 1] >>]
    IN  F[Len(model.meshes)]

\* the commands render records for the meshes (render.rs:81-87); it panics on
\* an empty materials collection (len() - 1 underflows, or the lookup is out
\* of bounds) and on an index out of bounds
MeshCommands(model) ==
    LET n == Len(model.materials)
        F[i \in 0..Len(model.meshes)] ==
            IF i = 0 THEN [commands |-> <<>>, panicked |-> FALSE]
            ELSE LET prev == F[i - 1]
                     mesh == model.meshes[i]
                     idx == MaterialIndex(mesh.material_id, n)
                 IN  IF prev.panicked THEN prev
                     ELSE IF n = 0 \/ idx >= n
                     THEN [prev EXCEPT !.panicked = TRUE]
                     ELSE [prev EXCEPT !.commands = @ \o
                            << [cmd |-> "set_bind_group", slot |-> 2,
                                group |-> model.materials[idx + 1].bind_group],
                               [cmd |-> "set_vertex_buffer", slot |-> 0,
                                buffer |-> mesh.vbuf],
                               [cmd |-> "set_index_buffer", buffer |-> mesh.ibuf,
                                format |-> "Uint32"],
                               [cmd |-> "draw_indexed", first |-> 0,
                                count |-> mesh.index_count, base_vertex |-> 0,
                                instances |-> 1] >>]
    IN  F[Len(model.meshes)]

\* Renderer3D::render that sets the pipeline and slots 0 and 1 after the
\* meshes were drawn
RenderBindsAfterDraws(self, enc, target_view) ==
    LET head == << [cmd |-> "set_pipeline", pipeline |-> self.render_pipeline],
                   [cmd |-> "set_bind_group", slot |-> 0, group |-> self.camera_bg],
                   [cmd |-> "set_bind_group", slot |-> 1, group |-> self.model_bg] >>
        m == MeshCommands(self.model)
        pass == [ label |-> "scene_pass",
                  color |-> [view |-> target_view, load |-> "Clear", store |-> "Store"],
                  depth |-> [view |-> self.depth_view.id, load |-> "Clear",
                             store |-> "Store"],
                  commands |-> m.commands \o head ]
    IN  [ passes |-> Append(enc.passes, pass),
          panicked |-> enc.panicked \/ m.panicked ]

\* Renderer3D::render: the encoder after the scene pass was recorded
Renderer3D_render(self, enc, target_view) ==
    LET head == << [cmd |-> "set_pipeline", pipeline |-> self.render_pipeline],
                   [cmd |-> "set_bind_group", slot |-> 0, group |-> self.camera_bg],
                   [cmd |-> "set_bind_group", slot |-> 1, group |-> self.model_bg] >>
        m == MeshCommands(self.model)
        pass == [ label |-> "scene_pass",
                  color |-> [view |-> target_view, load |-> "Clear", store |-> "Store"],
                  depth |-> [view |-> self.depth_view.id, load |-> "Clear",
                             store |-> "Store"],
                  commands |-> head \o m.commands ]
    IN  [ passes |-> Append(enc.passes, pass),
          panicked |-> enc.panicked \/ m.panicked ]

\* device.create_command_encoder
create_command_encoder == [passes |-> <<>>, panicked |-> FALSE]

----------------------------------------------------------------------------
(* crates/minima-runtime/src/lib.rs: Graphics *)

\* update_camera_buffer: the data written to the camera buffer.  The
\* view-projection matrix is a function of the camera and of
\* width.max(1) / height.max(1); the buffer is modelled by these arguments.
update_camera_buffer(camera, width, height) ==
    [ eye |-> camera.eye, yaw |-> camera.yaw, pitch |-> camera.pitch,
      aspect |-> <<Max(width, 1), Max(height, 1)>> ]

\* create_graphics: the Graphics sent to the event loop, for a window of the
\* given inner size, the surface format the adapter prefers, the model the
\* loader returned and the instant of construction
create_graphics(size, format, model, now) ==
    LET width == Max(size[1], 1)
        height == Max(size[2], 1)
        surface_config == [format |-> format, width |-> width, height |-> height]
        viewport == Viewport_new(0, surface_config.format, surface_config.width,
                                 surface_config.height)
        rend == Renderer3D_new(ViewportObjects, surface_config.format,
                               surface_config.width, surface_config.height, model)
        camera == OrbitCamera_new(Vec3(0, 0, 0), 0, 0)
    IN  [ surface_config |-> surface_config,
          surface |-> [configured |-> <<surface_config.width, surface_config.height>>],
          device |-> ViewportObjects + DepthObjects,
          viewport |-> viewport,
          renderer |-> rend,
          camera |-> camera,
          controller |-> CameraController_new(CAMERA_SPEED),
          camera_data |-> update_camera_buffer(camera, surface_config.width,
                                               surface_config.height),
          last_frame_time |-> now ]

\* Graphics::viewport_view
viewport_view(g) == g.viewport.color_view

\* Graphics::viewport_size
viewport_size(g) == <<g.surface_config.width, g.surface_config.height>>

\* Graphics::resize that resizes the renderer's depth buffer to the raw size
ResizeDepthUnclamped(g, new_size) ==
    LET sc == [g.surface_config EXCEPT !.width = Max(new_size[1], 1),
                                       !.height = Max(new_size[2], 1)]
        viewport == Viewport_resize(g.viewport, g.device, sc.width, sc.height)
        rend == Renderer3D_resize(g.renderer, g.device + ViewportObjects,
                                  new_size[1], new_size[2])
    IN  [g EXCEPT !.surface_config = sc,
                  !.surface = [configured |-> <<sc.width, sc.height>>],
                  !.viewport = viewport,
                  !.renderer = rend,
                  !.device = g.device + ViewportObjects + DepthObjects,
                  !.camera_data = update_camera_buffer(g.camera, viewport.width,
                                                       viewport.height)]

\* Graphics::resize
Graphics_resize(g, new_size) ==
    LET sc == [g.surface_config EXCEPT !.width = Max(new_size[1], 1),
                                       !.height = Max(new_size[2], 1)]
        viewport == Viewport_resize(g.viewport, g.device, sc.width, sc.height)
        rend == Renderer3D_resize(g.renderer, g.device + ViewportObjects,
                                  viewport.width, viewport.height)
    IN  [g EXCEPT !.surface_config = sc,
                  !.surface = [configured |-> <<sc.width, sc.height>>],
                  !.viewport = viewport,
                  !.renderer = rend,
                  !.device = g.device + ViewportObjects + DepthObjects,
                  !.camera_data = update_camera_buffer(g.camera, viewport.width,
                                                       viewport.height)]

\* Duration::as_secs_f32, from microseconds
as_secs_f32(micros) == RoundDiv(micros, 1000000 \div SCALE)

\* 0.1, the largest dt draw integrates (lib.rs:243-245)
MaxDt == 1000

\* the dt of draw (lib.rs:241-245), without the cap
FrameDtUncapped(g, now) == as_secs_f32(now - g.last_frame_time)

\* the dt of draw (lib.rs:241-245)
FrameDt(g, now) ==
    Strict1(as_secs_f32(now - g.last_frame_time), LAMBDA dt :
        IF dt > MaxDt THEN MaxDt ELSE dt)

\* the view of the acquired swap-chain image
swap_view == "swap_view"

\* the overlay callback applied to the encoder: draw_no_overlay's records
\* nothing; the editor's (app.rs:357-406) records the egui pass on the
\* swap-chain view, which shows the image registered under the texture id
\* the UI used when the viewport panel is shown
ApplyOverlay(overlay, g, view, enc) ==
    IF overlay.kind = "none" THEN enc
    ELSE [enc EXCEPT !.passes = Append(@,
            [ label |-> "egui_overlay_pass",
              color |-> [view |-> view, load |-> "Load", store |-> "Store"],
              depth |-> "None",
              commands |->
                IF overlay.shown
                THEN << [ cmd |-> "image", texture_id |-> overlay.tex_id,
                          view |-> IF overlay.tex_id \in DOMAIN overlay.textures
                                   THEN overlay.textures[overlay.tex_id]
                                   ELSE "freed" ] >>
                ELSE <<>> ])]

\* what draw leaves behind when it panics before recording anything
AbortedFrame(dt, steps) ==
    [ dt |-> dt, steps |-> steps, passes |-> <<>>, overlay_calls |-> 0,
      submits |-> 0, presents |-> 0 ]

\* Graphics::draw that uploads the camera buffer before the controller
\* integrates
DrawUploadBeforeUpdate(g, now, acquired, overlay) ==
    Strict1(FrameDt(g, now), LAMBDA dt :
    Strict1(CameraController_update(g.controller, g.camera, dt), LAMBDA camera :
        LET g1 == [g EXCEPT !.last_frame_time = now,
                            !.camera = camera,
                            !.camera_data =
                                update_camera_buffer(g.camera, g.viewport.width,
                                                     g.viewport.height)]
            steps == <<"write_camera_buffer", "update", "get_current_texture">>
        IN  IF ~acquired
            THEN [gfx |-> g1, frame |-> AbortedFrame(dt, steps), panicked |-> TRUE]
            ELSE
    Strict1(Renderer3D_render(g1.renderer, create_command_encoder,
                              viewport_view(g1).id), LAMBDA enc1 :
    Strict1(ApplyOverlay(overlay, g1, swap_view, enc1), LAMBDA enc2 :
        [ gfx |-> g1,
          frame |-> [ dt |-> dt,
                      steps |-> steps \o <<"render", "overlay", "submit", "present">>,
                      passes |-> enc2.passes, overlay_calls |-> 1,
                      submits |-> 1, presents |-> 1 ],
          panicked |-> FALSE ]))))

\* Graphics::draw that goes on when no swap-chain image was acquired
DrawWithoutImage(g, now, acquired, overlay) ==
    Strict1(FrameDt(g, now), LAMBDA dt :
    Strict1(CameraController_update(g.controller, g.camera, dt), LAMBDA camera :
        LET g1 == [g EXCEPT !.last_frame_time = now,
                            !.camera = camera,
                            !.camera_data =
                                update_camera_buffer(camera, g.viewport.width,
                                                     g.viewport.height)]
            steps == <<"update", "write_camera_buffer", "get_current_texture">>
        IN
    Strict1(Renderer3D_render(g1.renderer, create_command_encoder,
                              viewport_view(g1).id), LAMBDA enc1 :
    Strict1(ApplyOverlay(overlay, g1, swap_view, enc1), LAMBDA enc2 :
        [ gfx |-> g1,
          frame |-> [ dt |-> dt,
                      steps |-> steps \o <<"render", "overlay", "submit", "present">>,
                      passes |-> enc2.passes, overlay_calls |-> 1,
                      submits |-> 1, presents |-> IF acquired THEN 1 ELSE 0 ],
          panicked |-> FALSE ]))))

\* Graphics::draw with the overlay invoked before the scene pass is recorded
DrawOverlayFirst(g, now, acquired, overlay) ==
    Strict1(FrameDt(g, now), LAMBDA dt :
    Strict1(CameraController_update(g.controller, g.camera, dt), LAMBDA camera :
        LET g1 == [g EXCEPT !.last_frame_time = now,
                            !.camera = camera,
                            !.camera_data =
                                update_camera_buffer(camera, g.viewport.width,
                                                     g.viewport.height)]
            steps == <<"update", "write_camera_buffer", "get_current_texture">>
        IN  IF ~acquired
            THEN [gfx |-> g1, frame |-> AbortedFrame(dt, steps), panicked |-> TRUE]
            ELSE
    Strict1(ApplyOverlay(overlay, g1, swap_view, create_command_encoder), LAMBDA enc1 :
    Strict1(Renderer3D_render(g1.renderer, enc1, viewport_view(g1).id), LAMBDA enc2 :
        [ gfx |-> g1,
          frame |-> [ dt |-> dt,
                      steps |-> steps \o <<"overlay", "render", "submit", "present">>,
                      passes |-> enc2.passes, overlay_calls |-> 1,
                      submits |-> 1, presents |-> 1 ],
          panicked |-> FALSE ]))))

\* Graphics::draw that, when it caps dt, advances last_frame_time by the
\* capped dt only, so the time cut off is counted in the next frame
DrawKeepsCutOffTime(g, now, acquired, overlay) ==
    Strict1(FrameDt(g, now), LAMBDA dt :
    Strict1(CameraController_update(g.controller, g.camera, dt), LAMBDA camera :
        LET g1 == [g EXCEPT !.last_frame_time =
                                IF FrameDtUncapped(g, now) > MaxDt
                                THEN g.last_frame_time + MaxDt * (1000000 \div SCALE)
                                ELSE now,
                            !.camera = camera,
                            !.camera_data =
                                update_camera_buffer(camera, g.viewport.width,
                                                     g.viewport.height)]
            steps == <<"update", "write_camera_buffer", "get_current_texture">>
        IN  IF ~acquired
            THEN [gfx |-> g1, frame |-> AbortedFrame(dt, steps), panicked |-> TRUE]
            ELSE
    Strict1(Renderer3D_render(g1.renderer, create_command_encoder,
                              viewport_view(g1).id), LAMBDA enc1 :
        IF enc1.panicked
        THEN [ gfx |-> g1, frame |-> AbortedFrame(dt, Append(steps, "render")),
               panicked |-> TRUE ]
        ELSE
    Strict1(ApplyOverlay(overlay, g1, swap_view, enc1), LAMBDA enc2 :
        [ gfx |-> g1,
          frame |-> [ dt |-> dt,
                      steps |-> steps \o <<"render", "overlay", "submit", "present">>,
                      passes |-> enc2.passes, overlay_calls |-> 1,
                      submits |-> 1, presents |-> 1 ],
          panicked |-> FALSE ]))))

\* Graphics::draw at instant now; acquired tells whether
\* surface.get_current_texture() succeeded.  The result is the Graphics
\* after the call, the record of the frame and whether the call panicked.
Graphics_draw(g, now, acquired, overlay) ==
    Strict1(FrameDt(g, now), LAMBDA dt :
    Strict1(CameraController_update(g.controller, g.camera, dt), LAMBDA camera :
        LET g1 == [g EXCEPT !.last_frame_time = now,
                            !.camera = camera,
                            !.camera_data =
                                update_camera_buffer(camera, g.viewport.width,
                                                     g.viewport.height)]
            steps == <<"update", "write_camera_buffer", "get_current_texture">>
        IN  IF ~acquired
            THEN [gfx |-> g1, frame |-> AbortedFrame(dt, steps), panicked |-> TRUE]
            ELSE
    Strict1(Renderer3D_render(g1.renderer, create_command_encoder,
                              viewport_view(g1).id), LAMBDA enc1 :
        IF enc1.panicked
        THEN [ gfx |-> g1, frame |-> AbortedFrame(dt, Append(steps, "render")),
               panicked |-> TRUE ]
        ELSE
    Strict1(ApplyOverlay(overlay, g1, swap_view, enc1), LAMBDA enc2 :
        [ gfx |-> g1,
          frame |-> [ dt |-> dt,
                      steps |-> steps \o <<"render", "overlay", "submit", "present">>,
                      passes |-> enc2.passes, overlay_calls |-> 1,
                      submits |-> 1, presents |-> 1 ],
          panicked |-> FALSE ]))))

\* Graphics::handle_window_event
Graphics_handle_window_event(g, event) ==
    [g EXCEPT !.controller = CameraController_handle_window_event(g.controller, event)]

\* Graphics::handle_device_event that also releases the controller's keys
DeviceEventReleasesKeys(g, event) ==
    [g EXCEPT !.camera = CameraController_handle_device_event(g.camera, event),
              !.controller = CameraController_new(g.controller.base_speed)]

\* Graphics::handle_device_event
Graphics_handle_device_event(g, event) ==
    [g EXCEPT !.camera = CameraController_handle_device_event(g.camera, event)]

----------------------------------------------------------------------------
(* The camera controller driven by events, from its constructed state *)

\* window events other than KeyboardInput
OtherWindowEvents == { [type |-> "CursorMoved"], [type |-> "Focused"] }

WindowEvents == KeyboardEvents \cup OtherWindowEvents

\* raw mouse deltas, in device units: small and large enough to hit the clamp
MouseDX == {-628, 628}
MouseDY == {-7000, 250, 7000}

\* device events other than MouseMotion
OtherDeviceEvents == { [type |-> "Button"] }

DeviceEvents ==
    { MouseMotion(dx, dy) : dx \in MouseDX, dy \in MouseDY } \cup OtherDeviceEvents

\* the yaw the camera specification lets the camera turn to, in half turns
MaxHalfTurns == 1

InitCamera == OrbitCamera_new(Vec3(0, 0, 0), 0, 0)

CamInit ==
    /\ cam = InitCamera
    /\ ctl = CameraController_new(CAMERA_SPEED)
    /\ call = [op |-> "new"]
    /\ device = Unused /\ vp = Unused /\ renderer = Unused /\ encoder = Unused
    /\ HostUnused

CamWindowEvent ==
    \E ev \in WindowEvents :
        /\ ctl' = CameraController_handle_window_event(ctl, ev)
        /\ call' = [op |-> "handle_window_event", event |-> ev]
        /\ UNCHANGED <<cam, device, vp, renderer, encoder, hostVars>>

CamDeviceEvent ==
    \E ev \in DeviceEvents :
        /\ cam' = CameraController_handle_device_event(cam, ev)
        /\ Abs(cam'.yaw) <= MaxHalfTurns * PI
        /\ call' = [op |-> "handle_device_event", event |-> ev]
        /\ UNCHANGED <<ctl, device, vp, renderer, encoder, hostVars>>

CamNext == CamWindowEvent \/ CamDeviceEvent

SpecCamera == CamInit /\ [][CamNext]_vars

----------------------------------------------------------------------------
(* CameraController::update applied to sampled cameras and controllers *)

FlagSettings == [Flags -> BOOLEAN]

ControllerWith(f) ==
    [ move_forward |-> f["move_forward"], move_back |-> f["move_back"],
      move_left |-> f["move_left"], move_right |-> f["move_right"],
      move_up |-> f["move_up"], move_down |-> f["move_down"],
      boost_speed |-> f["boost_speed"], base_speed |-> CAMERA_SPEED ]

\* yaw and pitch values mouse look reaches (multiples of the sensitivity, or a
\* clamp limit)
YawSamples == {0, 7850, 15700, -39250}
PitchSamples == {0, 7000, max_pitch, -max_pitch}

\* frame times: 16 ms, the 0.1 s cap of the frame loop, 1 s
DtSamples == {160, 1000, 10000}

\* updates applied to one sampled camera
MaxUpdates == 2

UpdInit ==
    /\ \E f \in FlagSettings : ctl = ControllerWith(f)
    /\ \E yw \in YawSamples, p \in PitchSamples :
          cam = OrbitCamera_new(Vec3(0, 0, 0), yw, p)
    /\ call = [op |-> "new", n |-> 0]
    /\ device = Unused /\ vp = Unused /\ renderer = Unused /\ encoder = Unused
    /\ HostUnused

UpdStep ==
    \E dt \in DtSamples :
        /\ call.n < MaxUpdates
        /\ cam' = CameraController_update(ctl, cam, dt)
        /\ call' = [op |-> "update", dt |-> dt, n |-> call.n + 1]
        /\ UNCHANGED <<ctl, device, vp, renderer, encoder, hostVars>>

UpdNext == UpdStep

SpecUpdate == UpdInit /\ [][UpdNext]_vars

----------------------------------------------------------------------------
(* Viewport::new and Viewport::resize applied to sampled sizes *)

\* small sizes, zero included, are enumerated up to MaxDim
MaxDim == 2

WidthSamples == (0..MaxDim) \cup {800, 1920}
HeightSamples == (0..MaxDim) \cup {600, 1080}

\* viewports one device creates in the viewport specification
MaxViewports == 3

VpInit ==
    /\ device = 0
    /\ vp = Unused
    /\ call = [op |-> "none"]
    /\ cam = Unused /\ ctl = Unused /\ renderer = Unused /\ encoder = Unused
    /\ HostUnused

VpNew ==
    \E f \in TextureFormats, w \in WidthSamples, h \in HeightSamples :
        /\ device < MaxViewports * ViewportObjects
        /\ vp' = Viewport_new(device, f, w, h)
        /\ device' = device + ViewportObjects
        /\ call' = [op |-> "new", width |-> w, height |-> h, format |-> f]
        /\ UNCHANGED <<cam, ctl, renderer, encoder, hostVars>>

VpResize ==
    \E w \in WidthSamples, h \in HeightSamples :
        /\ vp # Unused
        /\ device < MaxViewports * ViewportObjects
        /\ vp' = Viewport_resize(vp, device, w, h)
        /\ device' = device + ViewportObjects
        /\ call' = [ op |-> "resize", width |-> w, height |-> h, format |-> vp.format,
                     from |-> <<vp.width, vp.height>> ]
        /\ UNCHANGED <<cam, ctl, renderer, encoder, hostVars>>

VpNext == VpNew \/ VpResize

SpecViewport == VpInit /\ [][VpNext]_vars

----------------------------------------------------------------------------
(* Renderer3D::render applied to sampled models *)

\* meshes and materials of a sampled model, and the largest material_id
MaxMeshes == 2
MaxMaterials == 2
MaxMaterialId == 3

IndexCounts == {3, 6}

MeshSpecs == [material_id : 0..MaxMaterialId, index_count : IndexCounts]

SeqsUpTo(S, n) == UNION { [1..k -> S] : k \in 0..n }

\* a Model as the loader builds it: mesh i owns buffers i, material j bind
\* group j
ModelOf(meshSpecs, nMaterials) ==
    [ meshes |-> [i \in 1..Len(meshSpecs) |->
                    [ material_id |-> meshSpecs[i].material_id,
                      index_count |-> meshSpecs[i].index_count,
                      vbuf |-> <<"vbuf", i - 1>>, ibuf |-> <<"ibuf", i - 1>> ]],
      materials |-> [j \in 1..nMaterials |-> [bind_group |-> <<"material_bg", j - 1>>]] ]

\* ids of the views a scene pass is recorded against
TargetViews == {1, 5}

RndInit ==
    /\ device = DepthObjects
    /\ \E ms \in SeqsUpTo(MeshSpecs, MaxMeshes), n \in 0..MaxMaterials :
          renderer = Renderer3D_new(0, "Bgra8UnormSrgb", 1, 1, ModelOf(ms, n))
    /\ encoder = create_command_encoder
    /\ call = [op |-> "new"]
    /\ cam = Unused /\ ctl = Unused /\ vp = Unused
    /\ HostUnused

RndRender ==
    \E tv \in TargetViews :
        /\ encoder' = Renderer3D_render(renderer, create_command_encoder, tv)
        /\ call' = [op |-> "render", target_view |-> tv]
        /\ UNCHANGED <<cam, ctl, device, vp, renderer, hostVars>>

RndNext == RndRender

SpecRender == RndInit /\ [][RndNext]_vars

----------------------------------------------------------------------------
(* src/app.rs: the host application and its event loop *)

FPS == 120

\* FRAME_TIME, in microseconds
FRAME_TIME == 1000000 \div FPS

None == <<>>

Some(x) == <<x>>

\* egui_wgpu::Renderer::register_native_texture: user texture ids count up
register_native_texture(r, view) ==
    [ renderer |-> [ textures |-> [id \in (DOMAIN r.textures) \cup {r.next_user_texture_id}
                                    |-> IF id = r.next_user_texture_id THEN view.id
                                        ELSE r.textures[id]],
                     next_user_texture_id |-> r.next_user_texture_id + 1 ],
      id |-> r.next_user_texture_id ]

\* egui_wgpu::Renderer::free_texture
free_texture(r, id) ==
    [r EXCEPT !.textures = [i \in (DOMAIN r.textures) \ {id} |-> r.textures[i]]]

\* egui_wgpu::Renderer::new
egui_renderer_new == [textures |-> <<>>, next_user_texture_id |-> 0]

\* App::init_egui_for_graphics: the egui renderer and the viewport texture id
init_egui_for_graphics(g) ==
    LET reg == register_native_texture(egui_renderer_new, viewport_view(g))
    IN  [egui_renderer |-> reg.renderer, viewport_tex_id |-> reg.id]

\* App::resized in the Ready state, keeping the texture id registered before
ResizedKeepTexture(rdy, g, size) == [gfx |-> Graphics_resize(g, size), ready |-> rdy]

\* App::resized in the Ready state: the Graphics and the ReadyState's egui
\* fields after the call
App_resized(rdy, g, size) ==
    LET g1 == Graphics_resize(g, size)
        reg == register_native_texture(
                   free_texture(rdy.egui_renderer, rdy.viewport_tex_id),
                   viewport_view(g1))
    IN  [ gfx |-> g1,
          ready |-> [egui_renderer |-> reg.renderer, viewport_tex_id |-> reg.id] ]

\* the cursor settings draw_editor applies for a grab request (app.rs:347-356)
ApplyGrab(win, request) ==
    IF request = None THEN win
    ELSE IF request[1]
    THEN [win EXCEPT !.cursor_visible = FALSE, !.cursor_grab = "Confined"]
    ELSE [win EXCEPT !.cursor_visible = TRUE, !.cursor_grab = "None"]

\* App::draw_editor that reads the grab request without taking it
DrawEditorKeepsRequest(rdy, g, uistate, win, now, input) ==
    LET viewport_tex_id == rdy.viewport_tex_id
        ui1 == IF input.shown /\ input.double_clicked /\ ~uistate.camera_active
               THEN [uistate EXCEPT !.camera_active = TRUE,
                                    !.cursor_grab_request = Some(TRUE)]
               ELSE uistate
        win1 == ApplyGrab(win, ui1.cursor_grab_request)
        overlay == [ kind |-> "editor", shown |-> input.shown,
                     tex_id |-> viewport_tex_id,
                     textures |-> rdy.egui_renderer.textures ]
    IN  Strict1(Graphics_draw(g, now, input.acquired, overlay), LAMBDA d :
            [ gfx |-> d.gfx, frame |-> d.frame, panicked |-> d.panicked,
              ui |-> ui1, window |-> win1 ])

\* App::draw_editor.  input is what the UI pass met: whether the viewport
\* image was laid out (shown), whether it was double-clicked, and whether the
\* swap-chain image could be acquired.
App_draw_editor(rdy, g, uistate, win, now, input) ==
    LET viewport_tex_id == rdy.viewport_tex_id
        ui1 == IF input.shown /\ input.double_clicked /\ ~uistate.camera_active
               THEN [uistate EXCEPT !.camera_active = TRUE,
                                    !.cursor_grab_request = Some(TRUE)]
               ELSE uistate
        win1 == ApplyGrab(win, ui1.cursor_grab_request)
        ui2 == [ui1 EXCEPT !.cursor_grab_request = None]
        overlay == [ kind |-> "editor", shown |-> input.shown,
                     tex_id |-> viewport_tex_id,
                     textures |-> rdy.egui_renderer.textures ]
    IN  Strict1(Graphics_draw(g, now, input.acquired, overlay), LAMBDA d :
            [ gfx |-> d.gfx, frame |-> d.frame, panicked |-> d.panicked,
              ui |-> ui2, window |-> win1 ])

----------------------------------------------------------------------------
(* The application driven by the event loop *)

\* inner sizes the window is created with and resized to (zero while
\* minimised)
WindowSizes == { <<0, 0>>, <<3, 0>>, <<3, 2>> }

\* the model the glTF loader returned: two meshes, the second naming a
\* material past the end, and two materials
AppModel == ModelOf(<< [material_id |-> 0, index_count |-> 6],
                       [material_id |-> 3, index_count |-> 3] >>, 2)

\* the surface format the adapter prefers
AppFormat == "Bgra8UnormSrgb"

\* times between two readings of the clock: one frame, and a 5 s stall
TickSamples == { FRAME_TIME, 5 * 1000000 }

\* readings of the clock that differ, and window resizes handled
MaxTicks == 1
MaxResizes == 1

\* new_events is followed while render_target is at most this many frame
\* times behind the clock
MaxLag == 1

\* keyboard events the window delivers to the application
AppKeys == {"KeyW", "Escape"}

AppKeyboardEvents ==
    { KeyboardInput(k, "Pressed", FALSE) : k \in AppKeys }
        \cup { KeyboardInput("KeyW", "Pressed", TRUE),
               KeyboardInput("KeyW", "Released", FALSE) }

\* window events handled by the last arm of App::window_event
AppOtherEvents == AppKeyboardEvents \cup { [type |-> "CursorMoved"] }

\* device events delivered to the application
AppDeviceEvents ==
    { MouseMotion(1256, 7000), MouseMotion(0, -700), [type |-> "Button"] }

\* egui_winit::State::on_window_event: what egui answers for an event
EventResponses ==
    { r \in [repaint : BOOLEAN, consumed : BOOLEAN] : r.consumed => r.repaint }

\* what a UI pass of draw_editor can meet
UiInputs ==
    { i \in [shown : BOOLEAN, double_clicked : BOOLEAN, acquired : BOOLEAN] :
        /\ i.double_clicked => i.shown
        /\ ~i.acquired => (i.shown /\ ~i.double_clicked) }

\* the frame drawn by the handler that ran last, if it drew one
NoFrame == [none |-> TRUE]

AppInit ==
    /\ app = [state |-> "Init", proxy |-> TRUE]
    /\ inbox = None
    /\ gfx = None
    /\ ready = None
    /\ ui = [camera_active |-> FALSE, cursor_grab_request |-> None]
    /\ render_target = 0
    /\ clock = [now |-> 0, ticks |-> 0]
    /\ window = None
    /\ frame = NoFrame
    /\ status = "running"
    /\ call = [op |-> "new"]
    /\ cam = Unused /\ ctl = Unused /\ device = Unused /\ vp = Unused
    /\ renderer = Unused /\ encoder = Unused

request_redraw(win) == [win EXCEPT !.redraw_requested = TRUE]

\* the clock advances
Tick ==
    \E d \in TickSamples :
        /\ status = "running"
        /\ clock.ticks < MaxTicks
        /\ clock' = [now |-> clock.now + d, ticks |-> clock.ticks + 1]
        /\ call' = [op |-> "tick"]
        /\ frame' = NoFrame
        /\ UNCHANGED <<compVars, app, inbox, gfx, ready, ui, render_target, window,
                       status>>

\* App::resumed that creates a window and a Graphics on every call
ResumedCreatesAgain ==
    /\ status = "running"
    /\ \E size \in WindowSizes :
           /\ app' = [app EXCEPT !.proxy = FALSE]
           /\ window' = [ redraw_requested |-> FALSE,
                          cursor_visible |-> TRUE, cursor_grab |-> "None" ]
           /\ inbox' = Some(create_graphics(size, AppFormat, AppModel, clock.now))
           /\ call' = [op |-> "resumed", created |-> TRUE, size |-> size]
    /\ frame' = NoFrame
    /\ UNCHANGED <<compVars, gfx, ready, ui, render_target, clock, status>>

\* App::resumed
Resumed ==
    /\ status = "running"
    /\ IF app.state = "Init" /\ app.proxy
       THEN \E size \in WindowSizes :
               /\ app' = [app EXCEPT !.proxy = FALSE]
               /\ window' = [ redraw_requested |-> FALSE,
                              cursor_visible |-> TRUE, cursor_grab |-> "None" ]
               /\ inbox' = Some(create_graphics(size, AppFormat, AppModel, clock.now))
               /\ call' = [op |-> "resumed", created |-> TRUE, size |-> size]
       ELSE /\ call' = [op |-> "resumed", created |-> FALSE]
            /\ UNCHANGED <<app, window, inbox>>
    /\ frame' = NoFrame
    /\ UNCHANGED <<compVars, gfx, ready, ui, render_target, clock, status>>

\* App::user_event
UserEvent ==
    /\ status = "running"
    /\ inbox # None
    /\ ready' = init_egui_for_graphics(inbox[1])
    /\ window' = request_redraw(window)
    /\ gfx' = inbox[1]
    /\ app' = [app EXCEPT !.state = "Ready"]
    /\ inbox' = None
    /\ call' = [op |-> "user_event"]
    /\ frame' = NoFrame
    /\ UNCHANGED <<compVars, ui, render_target, clock, status>>

\* App::new_events that sets the deadline one frame time after the clock
NewEventsFromNow ==
    /\ status = "running"
    /\ clock.now - render_target <= MaxLag * FRAME_TIME
    /\ IF render_target <= clock.now
       THEN /\ render_target' = clock.now + FRAME_TIME
            /\ window' = IF app.state = "Ready" THEN request_redraw(window) ELSE window
       ELSE UNCHANGED <<render_target, window>>
    /\ call' = [op |-> "new_events", due |-> (render_target <= clock.now)]
    /\ frame' = NoFrame
    /\ UNCHANGED <<compVars, app, inbox, gfx, ready, ui, clock, status>>

\* App::new_events
NewEvents ==
    /\ status = "running"
    /\ clock.now - render_target <= MaxLag * FRAME_TIME
    /\ IF render_target <= clock.now
       THEN /\ render_target' = render_target + FRAME_TIME
            /\ window' = IF app.state = "Ready" THEN request_redraw(window) ELSE window
       ELSE UNCHANGED <<render_target, window>>
    /\ call' = [op |-> "new_events", due |-> (render_target <= clock.now)]
    /\ frame' = NoFrame
    /\ UNCHANGED <<compVars, app, inbox, gfx, ready, ui, clock, status>>

\* App::window_event, WindowEvent::Resized
Resized ==
    \E size \in WindowSizes :
        /\ status = "running"
        /\ window # None
        /\ IF app.state = "Ready"
           THEN /\ gfx.device < (1 + MaxResizes) * (ViewportObjects + DepthObjects)
                /\ \E r \in {App_resized(ready, gfx, size)} :
                       gfx' = r.gfx /\ ready' = r.ready
           ELSE UNCHANGED <<gfx, ready>>
        /\ call' = [op |-> "resized", size |-> size]
        /\ frame' = NoFrame
        /\ UNCHANGED <<compVars, app, inbox, ui, render_target, clock, window, status>>

\* App::window_event, WindowEvent::RedrawRequested
RedrawRequested ==
    \E input \in UiInputs :
        /\ status = "running"
        /\ window # None
        /\ LET win0 == [window EXCEPT !.redraw_requested = FALSE]
               due == render_target <= clock.now
           IN  IF app.state = "Ready"
               THEN \E d \in {App_draw_editor(ready, gfx, ui, win0, clock.now, input)} :
                        /\ gfx' = d.gfx
                        /\ ui' = d.ui
                        /\ frame' = d.frame
                        /\ IF d.panicked
                           THEN /\ status' = "panicked"
                                /\ window' = d.window
                                /\ UNCHANGED render_target
                           ELSE /\ status' = status
                                /\ render_target' =
                                      IF due THEN clock.now + FRAME_TIME
                                      ELSE render_target
                                /\ window' = IF due THEN request_redraw(d.window)
                                             ELSE d.window
               ELSE /\ render_target' =
                          IF due THEN clock.now + FRAME_TIME ELSE render_target
                    /\ window' = win0
                    /\ frame' = NoFrame
                    /\ UNCHANGED <<gfx, ui, status>>
        /\ call' = [ op |-> "redraw_requested", acquired |-> input.acquired,
                     double_clicked |-> input.double_clicked ]
        /\ UNCHANGED <<compVars, app, inbox, ready, clock>>

\* CloseRequested that asks the event loop to exit in the Ready state only
CloseOnlyWhenReady ==
    /\ status = "running"
    /\ window # None
    /\ status' = IF app.state = "Ready" THEN "exiting" ELSE status
    /\ call' = [op |-> "close_requested"]
    /\ frame' = NoFrame
    /\ UNCHANGED <<compVars, app, inbox, gfx, ready, ui, render_target, clock, window>>

\* App::window_event, WindowEvent::CloseRequested
CloseRequested ==
    /\ status = "running"
    /\ window # None
    /\ status' = "exiting"
    /\ call' = [op |-> "close_requested"]
    /\ frame' = NoFrame
    /\ UNCHANGED <<compVars, app, inbox, gfx, ready, ui, render_target, clock, window>>

\* App::window_event for an event with no arm of its own, without the
\* camera_active test of app.rs:493
OtherEventAlwaysForwarded(st, g, uistate, win, event, response) ==
    IF st # "Ready"
    THEN [gfx |-> g, ui |-> uistate, window |-> win, forwarded |-> FALSE]
    ELSE LET win1 == IF response.repaint THEN request_redraw(win) ELSE win
             escape == /\ event.type = "KeyboardInput"
                       /\ event.physical_key = "Escape"
                       /\ event.state = "Pressed"
                       /\ ~event.repeat
                       /\ uistate.camera_active
             ui1 == IF escape
                    THEN [uistate EXCEPT !.camera_active = FALSE,
                                         !.cursor_grab_request = Some(FALSE)]
                    ELSE uistate
             win2 == IF escape THEN request_redraw(win1) ELSE win1
             forward == ~response.consumed
         IN  [ gfx |-> IF forward THEN Graphics_handle_window_event(g, event) ELSE g,
               ui |-> ui1, window |-> win2, forwarded |-> forward ]

\* App::window_event for an event with no arm of its own, with an Escape arm
\* that also releases the controller's keys
OtherEventEscapeReleasesKeys(st, g, uistate, win, event, response) ==
    IF st # "Ready"
    THEN [gfx |-> g, ui |-> uistate, window |-> win, forwarded |-> FALSE]
    ELSE LET win1 == IF response.repaint THEN request_redraw(win) ELSE win
             escape == /\ event.type = "KeyboardInput"
                       /\ event.physical_key = "Escape"
                       /\ event.state = "Pressed"
                       /\ ~event.repeat
                       /\ uistate.camera_active
             ui1 == IF escape
                    THEN [uistate EXCEPT !.camera_active = FALSE,
                                         !.cursor_grab_request = Some(FALSE)]
                    ELSE uistate
             win2 == IF escape THEN request_redraw(win1) ELSE win1
             g1 == IF escape
                   THEN [g EXCEPT !.controller =
                            CameraController_new(g.controller.base_speed)]
                   ELSE g
             forward == ui1.camera_active /\ ~response.consumed
         IN  [ gfx |-> IF forward THEN Graphics_handle_window_event(g1, event) ELSE g1,
               ui |-> ui1, window |-> win2, forwarded |-> forward ]

\* App::window_event for an event with no arm of its own (app.rs:469-497):
\* the Graphics, the UI state and the window after it, and whether the event
\* was passed to Graphics::handle_window_event
App_other_window_event(st, g, uistate, win, event, response) ==
    IF st # "Ready"
    THEN [gfx |-> g, ui |-> uistate, window |-> win, forwarded |-> FALSE]
    ELSE LET win1 == IF response.repaint THEN request_redraw(win) ELSE win
             escape == /\ event.type = "KeyboardInput"
                       /\ event.physical_key = "Escape"
                       /\ event.state = "Pressed"
                       /\ ~event.repeat
                       /\ uistate.camera_active
             ui1 == IF escape
                    THEN [uistate EXCEPT !.camera_active = FALSE,
                                         !.cursor_grab_request = Some(FALSE)]
                    ELSE uistate
             win2 == IF escape THEN request_redraw(win1) ELSE win1
             forward == ui1.camera_active /\ ~response.consumed
         IN  [ gfx |-> IF forward THEN Graphics_handle_window_event(g, event) ELSE g,
               ui |-> ui1, window |-> win2, forwarded |-> forward ]

OtherWindowEvent ==
    \E event \in AppOtherEvents, response \in EventResponses :
        /\ status = "running"
        /\ window # None
        /\ \E r \in {App_other_window_event(app.state, gfx, ui, window, event, response)} :
               /\ gfx' = r.gfx
               /\ ui' = r.ui
               /\ window' = r.window
               /\ call' = [ op |-> "window_event", event |-> event,
                            consumed |-> response.consumed,
                            forwarded |-> r.forwarded ]
        /\ frame' = NoFrame
        /\ UNCHANGED <<compVars, app, inbox, ready, render_target, clock, status>>

\* App::device_event: the Graphics after it, and whether the event was passed
\* to Graphics::handle_device_event
App_device_event(st, g, uistate, event) ==
    IF st = "Ready" /\ uistate.camera_active
    THEN [gfx |-> Graphics_handle_device_event(g, event), forwarded |-> TRUE]
    ELSE [gfx |-> g, forwarded |-> FALSE]

DeviceEvent ==
    \E event \in AppDeviceEvents :
        /\ status = "running"
        /\ \E r \in {App_device_event(app.state, gfx, ui, event)} :
               /\ gfx' = r.gfx
               /\ r.forwarded => Abs(r.gfx.camera.yaw) <= MaxHalfTurns * PI
               /\ call' = [op |-> "device_event", event |-> event,
                           forwarded |-> r.forwarded]
        /\ frame' = NoFrame
        /\ UNCHANGED <<compVars, app, inbox, ready, ui, render_target, clock, window,
                       status>>

Next ==
    \/ Tick
    \/ Resumed
    \/ UserEvent
    \/ NewEvents
    \/ Resized
    \/ RedrawRequested
    \/ CloseRequested
    \/ OtherWindowEvent
    \/ DeviceEvent

Spec == AppInit /\ [][Next]_vars

\* The event loop calls new_events at the start of every iteration, and
\* about_to_wait (app.rs:514-516) has it wake up at render_target at the
\* latest, so new_events does not stay pending forever.
FairSpec == Spec /\ WF_vars(NewEvents)

----------------------------------------------------------------------------
(* Graphics::resize applied in sequence to sampled sizes *)

\* Graphics::resize calls on one Graphics in the resize specification
MaxGraphicsResizes == 2

ResizeSizes == WidthSamples \X HeightSamples

GfxInit ==
    /\ \E size \in ResizeSizes, f \in TextureFormats :
          /\ gfx = create_graphics(size, f, AppModel, 0)
          /\ call = [op |-> "create_graphics", size |-> size]
    /\ cam = Unused /\ ctl = Unused /\ device = Unused /\ vp = Unused
    /\ renderer = Unused /\ encoder = Unused
    /\ app = Unused /\ inbox = Unused /\ ready = Unused /\ ui = Unused
    /\ render_target = Unused /\ clock = Unused /\ window = Unused
    /\ frame = Unused /\ status = Unused

GfxResize ==
    \E size \in ResizeSizes :
        /\ gfx.device < (1 + MaxGraphicsResizes) * (ViewportObjects + DepthObjects)
        /\ gfx' = Graphics_resize(gfx, size)
        /\ call' = [op |-> "resize", size |-> size, after |-> call.size]
        /\ UNCHANGED <<compVars, app, inbox, ready, ui, render_target, clock, window,
                       frame, status>>

GfxNext == GfxResize

SpecResize == GfxInit /\ [][GfxNext]_vars

----------------------------------------------------------------------------
(* The four operations of one Graphics: window events, device events, draws
   and resizes in any order *)

\* draws of one Graphics in the Graphics specification
MaxDraws == 1

\* Graphics::resize calls in the Graphics specification
MaxSceneResizes == 1

\* keys pressed and released in the Graphics specification
SceneKeys == { "KeyW", "KeyS", "KeyD" }

SceneWindowEvents ==
    { KeyboardInput(k, st, FALSE) : k \in SceneKeys, st \in {"Pressed", "Released"} }
        \cup { [type |-> "CursorMoved"] }

SceneInit ==
    /\ gfx = create_graphics(<<3, 2>>, AppFormat, AppModel, 0)
    /\ clock = [now |-> 0, ticks |-> 0]
    /\ call = [op |-> "create_graphics"]
    /\ frame = NoFrame
    /\ status = "running"
    /\ cam = Unused /\ ctl = Unused /\ device = Unused /\ vp = Unused
    /\ renderer = Unused /\ encoder = Unused
    /\ app = Unused /\ inbox = Unused /\ ready = Unused /\ ui = Unused
    /\ render_target = Unused /\ window = Unused

SceneWindowEvent ==
    \E event \in SceneWindowEvents :
        /\ status = "running"
        /\ gfx' = Graphics_handle_window_event(gfx, event)
        /\ call' = [op |-> "handle_window_event", event |-> event]
        /\ frame' = NoFrame
        /\ UNCHANGED <<compVars, app, inbox, ready, ui, render_target, clock, window,
                       status>>

SceneDeviceEvent ==
    \E event \in AppDeviceEvents :
        /\ status = "running"
        /\ \E g \in {Graphics_handle_device_event(gfx, event)} :
               /\ Abs(g.camera.yaw) <= MaxHalfTurns * PI
               /\ gfx' = g
        /\ call' = [op |-> "handle_device_event", event |-> event]
        /\ frame' = NoFrame
        /\ UNCHANGED <<compVars, app, inbox, ready, ui, render_target, clock, window,
                       status>>

\* Graphics::draw_no_overlay, some time after the previous draw
SceneDraw ==
    \E elapsed \in TickSamples, acquired \in BOOLEAN :
        /\ status = "running"
        /\ clock.ticks < MaxDraws
        /\ \E d \in {Graphics_draw(gfx, clock.now + elapsed, acquired,
                                    [kind |-> "none"])} :
               /\ gfx' = d.gfx
               /\ frame' = d.frame
               /\ status' = IF d.panicked THEN "panicked" ELSE status
        /\ clock' = [now |-> clock.now + elapsed, ticks |-> clock.ticks + 1]
        /\ call' = [op |-> "draw", acquired |-> acquired]
        /\ UNCHANGED <<compVars, app, inbox, ready, ui, render_target, window>>

SceneResize ==
    \E size \in WindowSizes :
        /\ status = "running"
        /\ gfx.device < (1 + MaxSceneResizes) * (ViewportObjects + DepthObjects)
        /\ gfx' = Graphics_resize(gfx, size)
        /\ call' = [op |-> "resize", size |-> size]
        /\ frame' = NoFrame
        /\ UNCHANGED <<compVars, app, inbox, ready, ui, render_target, clock, window,
                       status>>

SceneNext ==
    \/ SceneWindowEvent
    \/ SceneDeviceEvent
    \/ SceneDraw
    \/ SceneResize

SpecGraphics == SceneInit /\ [][SceneNext]_vars

----------------------------------------------------------------------------
(* Claims about CameraController::update (SpecUpdate) *)

\* magnitude of a displacement; large vectors are measured in tenths so the
\* squares stay in range
Mag(v) ==
    Strict1(v, LAMBDA u :
        IF Max(Abs(u[1]), Max(Abs(u[2]), Abs(u[3]))) > 2 * SCALE
        THEN 10 * Length(<<RoundDiv(u[1], 10), RoundDiv(u[2], 10), RoundDiv(u[3], 10)>>)
        ELSE Length(u))

\* rounding allowance for a magnitude e: one part in a thousand and two units
MagTol(e) == e \div 1000 + 2

\* d is e within the rounding allowance
NearMag(d, e) == Strict2(d, e, LAMBDA x1, x2 : Abs(x1 - x2) <= MagTol(x2))

\* the speed the claim names: base_speed, or 5 * base_speed when boosted
ClaimSpeed(c) == IF c.boost_speed THEN 5 * c.base_speed ELSE c.base_speed

\* the directional flags do not cancel out
NetIntent(c) ==
    \/ c.move_forward # c.move_back
    \/ c.move_left # c.move_right
    \/ c.move_up # c.move_down

\* C4 as stated: for every combination of the flags, an update moves the eye
\* by a displacement of magnitude speed * dt.
C4_EveryCombinationMovesSpeedDt ==
    [][ call'.op = "update" =>
          LET d == Mag(VSub(cam'.eye, cam.eye))
              e == FMul(ClaimSpeed(ctl), call'.dt)
          IN  NearMag(d, e) ]_vars

\* C4 amended: an update moves the eye by a displacement of magnitude
\* speed * dt (never more) when the directional flags do not cancel out, with
\* speed = base_speed or 5 * base_speed when boosted, whichever flags are
\* held; when no directional flag is set or they cancel out it moves the eye
\* by nothing.
C4_MovementMagnitude ==
    [][ call'.op = "update" =>
          LET d == Mag(VSub(cam'.eye, cam.eye))
              e == FMul(ClaimSpeed(ctl), call'.dt)
          IN  IF NetIntent(ctl) THEN NearMag(d, e) ELSE d = 0 ]_vars

\* a diagonal (forward + right), boosted update has moved the eye
C4_Witness ==
    /\ call.op = "update"
    /\ ctl.move_forward /\ ctl.move_right /\ ctl.boost_speed
    /\ ~ctl.move_back /\ ~ctl.move_left /\ ~ctl.move_up /\ ~ctl.move_down
    /\ cam.eye # ZERO

----------------------------------------------------------------------------
(* Claims about the controller's event handlers (SpecCamera) *)

\* the key table of the claim
ClaimKeyTable ==
    [ KeyW |-> "move_forward", KeyS |-> "move_back", KeyA |-> "move_left",
      KeyD |-> "move_right", KeyJ |-> "move_up", KeyK |-> "move_down",
      ShiftLeft |-> "boost_speed" ]

\* C5: handle_window_event with repeat = true changes no flag; a non-repeat
\* event for W/S/A/D/J/K/ShiftLeft sets exactly the mapped flag to true on
\* press and false on release and leaves the others unchanged; any other key
\* or window event changes nothing.
C5_KeyEdgesSetOneFlag ==
    [][ call'.op = "handle_window_event" =>
          LET ev == call'.event
          IN  IF /\ ev.type = "KeyboardInput"
                 /\ ~ev.repeat
                 /\ ev.physical_key \in DOMAIN ClaimKeyTable
              THEN /\ ctl'[ClaimKeyTable[ev.physical_key]] = (ev.state = "Pressed")
                   /\ \A f \in (DOMAIN ctl) \ {ClaimKeyTable[ev.physical_key]} :
                         ctl'[f] = ctl[f]
              ELSE ctl' = ctl ]_vars

\* D was pressed while W was held: both flags are set, the rest are not
C5_Witness ==
    /\ call.op = "handle_window_event"
    /\ call.event = KeyboardInput("KeyD", "Pressed", FALSE)
    /\ ctl.move_right /\ ctl.move_forward
    /\ ~ctl.move_left /\ ~ctl.move_back /\ ~ctl.boost_speed

----------------------------------------------------------------------------
(* Claims about the Viewport (SpecViewport) *)

\* C1: after Viewport::new or Viewport::resize with (width, height) the stored
\* width/height are (max(width,1), max(height,1)) and the color and the depth
\* texture were both created with exactly those dimensions.
C1_ViewportDimensions ==
    call.op \in {"new", "resize"} =>
        /\ vp.width = Max(call.width, 1)
        /\ vp.height = Max(call.height, 1)
        /\ vp.color.width = vp.width /\ vp.color.height = vp.height
        /\ vp.depth.width = vp.width /\ vp.depth.height = vp.height
        /\ vp.color_view.texture = vp.color.id
        /\ vp.depth_view.texture = vp.depth.id

\* a viewport created at (0, 0) is a (1, 1) viewport
C1_Witness ==
    /\ call.op = "new" /\ call.width = 0 /\ call.height = 0
    /\ vp.width = 1 /\ vp.height = 1
    /\ vp.color.width = 1 /\ vp.depth.height = 1

----------------------------------------------------------------------------
(* Claims about Renderer3D::render (SpecRender) *)

\* the material bindings (slot 2) of a scene pass, in recording order
MaterialBinds(pass) ==
    SelectSeq(pass.commands, LAMBDA c : c.cmd = "set_bind_group" /\ c.slot = 2)

\* C10: with a non-empty materials collection render does not fail, and binds
\* for each mesh the material at material_id when that is in range and the
\* material at index materials.len()-1 when material_id >= materials.len().
C10_MaterialClamp ==
    (call.op = "render" /\ Len(renderer.model.materials) > 0) =>
        LET model == renderer.model
            n == Len(model.materials)
            binds == MaterialBinds(encoder.passes[1])
        IN  /\ ~encoder.panicked
            /\ Len(encoder.passes) = 1
            /\ Len(binds) = Len(model.meshes)
            /\ \A i \in 1..Len(model.meshes) :
                  LET mid == model.meshes[i].material_id
                      want == IF mid >= n THEN n - 1 ELSE mid
                  IN  binds[i].group = model.materials[want + 1].bind_group

\* a pass was recorded for a model of two materials whose second mesh names
\* material 3: it is drawn with the last material, the first mesh with its own
C10_Witness ==
    /\ call.op = "render"
    /\ Len(renderer.model.materials) = 2
    /\ Len(renderer.model.meshes) = 2
    /\ renderer.model.meshes[1].material_id = 0
    /\ renderer.model.meshes[2].material_id = 3
    /\ ~encoder.panicked
    /\ MaterialBinds(encoder.passes[1])[1].group = <<"material_bg", 0>>
    /\ MaterialBinds(encoder.passes[1])[2].group = <<"material_bg", 1>>

----------------------------------------------------------------------------
(* Claims about the host application and Graphics (Spec) *)

\* the frame of the last handler is a draw that ran to the end
FrameDone(f) == f # NoFrame /\ f.presents = 1

\* C2: from the initial camera, whatever mouse motion, key events and updates
\* the application has handled, the camera's pitch is strictly inside
\* (-pi/2, pi/2)
C2_PitchInsidePoles ==
    /\ inbox # None => Abs(inbox[1].camera.pitch) < FRAC_PI_2
    /\ gfx # None => Abs(gfx.camera.pitch) < FRAC_PI_2

\* the pitch stands at its upper limit after mouse motion, with a key held
\* and the camera moved by an update
C2_Witness ==
    /\ gfx # None
    /\ gfx.camera.pitch = max_pitch
    /\ gfx.controller.move_forward
    /\ gfx.camera.eye # ZERO

\* C3: the dt a draw hands to CameraController::update is at most 0.1 s
C3_DtCapped == frame # NoFrame => frame.dt <= MaxDt

\* a draw 5 s after the draw before it: dt is 0.1 s, and with W held the
\* camera has moved CAMERA_SPEED * 0.1
C3_Witness ==
    /\ frame # NoFrame
    /\ clock.now >= 5 * 1000000
    /\ gfx.last_frame_time = clock.now
    /\ frame.dt = MaxDt
    /\ Mag(gfx.camera.eye) = FMul(CAMERA_SPEED, MaxDt)

\* the places of step a in the order of steps
Places(steps, a) == { i \in DOMAIN steps : steps[i] = a }

\* a happens once, b happens once, and a is before b
OnceBefore(steps, a, b) ==
    /\ Cardinality(Places(steps, a)) = 1
    /\ Cardinality(Places(steps, b)) = 1
    /\ \A i \in Places(steps, a), j \in Places(steps, b) : i < j

\* C6: in a draw that ran to the end, the encoder holds the scene pass on the
\* viewport color view and after it what the overlay recorded; the overlay
\* ran once, after render; the encoder was submitted once, after the overlay;
\* the image was presented after the submission
C6_SceneThenOverlay ==
    FrameDone(frame) =>
        /\ Len(frame.passes) = 2
        /\ frame.passes[1].label = "scene_pass"
        /\ frame.passes[1].color.view = gfx.viewport.color_view.id
        /\ frame.passes[2].label = "egui_overlay_pass"
        /\ frame.passes[2].color = [view |-> swap_view, load |-> "Load", store |-> "Store"]
        /\ frame.overlay_calls = 1
        /\ frame.submits = 1
        /\ OnceBefore(frame.steps, "render", "overlay")
        /\ OnceBefore(frame.steps, "overlay", "submit")
        /\ OnceBefore(frame.steps, "submit", "present")

\* a finished draw whose overlay showed the viewport image
C6_Witness ==
    /\ FrameDone(frame)
    /\ Len(frame.passes[1].commands) > 0
    /\ Len(frame.passes[2].commands) > 0

Clamped(size) == <<Max(size[1], 1), Max(size[2], 1)>>

\* the surface configuration, the configured surface, the viewport and its
\* color texture and the renderer's depth texture all have the size dims
SizesAgree(g, dims) ==
    /\ <<g.surface_config.width, g.surface_config.height>> = dims
    /\ g.surface.configured = dims
    /\ <<g.viewport.width, g.viewport.height>> = dims
    /\ <<g.viewport.color.width, g.viewport.color.height>> = dims
    /\ <<g.renderer.depth_tex.width, g.renderer.depth_tex.height>> = dims
    /\ viewport_size(g) = <<g.viewport.width, g.viewport.height>>

\* C7: create_graphics and every resize leave the surface configuration, the
\* viewport and the renderer's depth buffer at the clamp of the size given;
\* no other handler changes these sizes; and the scene pass of a draw writes
\* to the viewport color view and the renderer's depth view, of equal size
C7_SizesFollowLastResize ==
    [][ /\ (call'.op = "resumed" /\ call'.created)
            => SizesAgree(inbox'[1], Clamped(call'.size))
        /\ call'.op = "user_event" => gfx' = inbox[1]
        /\ (call'.op = "resized" /\ app.state = "Ready")
            => SizesAgree(gfx', Clamped(call'.size))
        /\ (call'.op # "resized" /\ gfx # None)
            => SizesAgree(gfx', viewport_size(gfx))
        /\ FrameDone(frame')
            => /\ frame'.passes[1].color.view = gfx'.viewport.color_view.id
               /\ frame'.passes[1].depth.view = gfx'.renderer.depth_view.id
               /\ gfx'.viewport.color_view.texture = gfx'.viewport.color.id
               /\ gfx'.renderer.depth_view.texture = gfx'.renderer.depth_tex.id
               /\ <<gfx'.viewport.color.width, gfx'.viewport.color.height>>
                    = <<gfx'.renderer.depth_tex.width, gfx'.renderer.depth_tex.height>>
      ]_vars

\* a resize to the zero size of the Graphics in use
C7_Witness ==
    /\ call.op = "resized"
    /\ call.size = <<0, 0>>
    /\ app.state = "Ready"
    /\ gfx.device > ViewportObjects + DepthObjects
    /\ SizesAgree(gfx, <<1, 1>>)

\* the image commands of the overlay pass of a frame
Images(f) ==
    { f.passes[2].commands[i] : i \in DOMAIN f.passes[2].commands }

\* C8: a Resized event handled in the Ready state resizes the Graphics,
\* frees the texture id registered before and registers the new viewport
\* color view; and the image each draw shows is the viewport color view of
\* that moment
C8_TextureFollowsResize ==
    [][ /\ (call'.op = "resized" /\ app.state = "Ready")
            => /\ gfx' = Graphics_resize(gfx, call'.size)
               /\ gfx'.viewport.color_view.id # gfx.viewport.color_view.id
               /\ ready.viewport_tex_id \notin DOMAIN ready'.egui_renderer.textures
               /\ ready'.viewport_tex_id \in DOMAIN ready'.egui_renderer.textures
               /\ ready'.egui_renderer.textures[ready'.viewport_tex_id]
                    = gfx'.viewport.color_view.id
        /\ FrameDone(frame')
            => \A c \in Images(frame') :
                   /\ c.texture_id = ready'.viewport_tex_id
                   /\ c.view = gfx'.viewport.color_view.id
      ]_vars

\* a draw after a resize that shows the viewport image
C8_Witness ==
    /\ FrameDone(frame)
    /\ gfx.device > ViewportObjects + DepthObjects
    /\ Images(frame) # {}
    /\ \A c \in Images(frame) : c.view = gfx.viewport.color_view.id

\* the controller flags and the camera orientation of a Graphics
Steering(g) == <<g.controller, g.camera.yaw, g.camera.pitch>>

\* C9: a window event is passed to Graphics::handle_window_event exactly when
\* the application is Ready, camera_active holds after the Escape handling of
\* that event and the UI did not consume it; a device event is passed to
\* Graphics::handle_device_event exactly when the application is Ready and
\* camera_active holds; an event not passed on leaves the Graphics alone; and
\* no handler that starts with camera_active false changes the controller
\* flags or the camera's yaw and pitch
C9_InputOnlyWhileCameraActive ==
    [][ /\ call'.op = "window_event"
            => /\ call'.forwarded
                    <=> (app.state = "Ready" /\ ui'.camera_active /\ ~call'.consumed)
               /\ gfx' = IF call'.forwarded
                         THEN Graphics_handle_window_event(gfx, call'.event)
                         ELSE gfx
        /\ call'.op = "device_event"
            => /\ call'.forwarded <=> (app.state = "Ready" /\ ui.camera_active)
               /\ gfx' = IF call'.forwarded
                         THEN Graphics_handle_device_event(gfx, call'.event)
                         ELSE gfx
        /\ (gfx # None /\ ~ui.camera_active) => Steering(gfx') = Steering(gfx)
      ]_vars

\* a W press passed on to the controller while the camera is active
C9_Witness ==
    /\ call.op = "window_event"
    /\ call.event = KeyboardInput("KeyW", "Pressed", FALSE)
    /\ call.forwarded
    /\ ui.camera_active
    /\ gfx.controller.move_forward

----------------------------------------------------------------------------
(* Claims about sequences of resizes (SpecResize) *)

\* the sizes a Graphics holds: surface configuration, configured surface,
\* viewport, viewport textures and the renderer's depth texture
AllSizes(g) ==
    << <<g.surface_config.width, g.surface_config.height>>,
       g.surface.configured,
       <<g.viewport.width, g.viewport.height>>,
       <<g.viewport.color.width, g.viewport.color.height>>,
       <<g.viewport.depth.width, g.viewport.depth.height>>,
       <<g.renderer.depth_tex.width, g.renderer.depth_tex.height>> >>

\* C11: a resize that follows a resize with the same (width, height) leaves
\* the sizes of the viewport, of the surface configuration and of the
\* renderer's depth buffer as the first resize left them
C11_ResizeIdempotent ==
    [][ (call.op = "resize" /\ call'.op = "resize" /\ call'.size = call.size)
            => AllSizes(gfx') = AllSizes(gfx)
      ]_vars

\* the second of two resizes to 800 x 600
C11_Witness ==
    /\ call.op = "resize"
    /\ call.size = <<800, 600>>
    /\ call.after = call.size
    /\ gfx.device = 3 * (ViewportObjects + DepthObjects)
    /\ AllSizes(gfx) = [i \in 1..6 |-> <<800, 600>>]

----------------------------------------------------------------------------
(* Claims about Viewport::resize as a replacement (SpecViewport) *)

\* the ids of the GPU objects a viewport holds
ViewportIds(v) == {v.color.id, v.color_view.id, v.depth.id, v.depth_view.id}

\* C12: after Viewport::resize the two textures and the two views are objects
\* the device created in that call, of the clamped new size, the views view
\* the new textures, no object of the viewport before is held, and the color
\* format is the one the viewport had
C12_ResizeReplacesAsUnit ==
    [][ (call'.op = "resize" /\ vp # Unused)
            => /\ Cardinality(ViewportIds(vp')) = ViewportObjects
               /\ ViewportIds(vp') \subseteq device..(device' - 1)
               /\ ViewportIds(vp') \cap ViewportIds(vp) = {}
               /\ <<vp'.width, vp'.height>>
                    = <<Max(call'.width, 1), Max(call'.height, 1)>>
               /\ <<vp'.color.width, vp'.color.height>> = <<vp'.width, vp'.height>>
               /\ <<vp'.depth.width, vp'.depth.height>> = <<vp'.width, vp'.height>>
               /\ vp'.color_view.texture = vp'.color.id
               /\ vp'.depth_view.texture = vp'.depth.id
               /\ vp'.format = vp.format
               /\ vp'.color.format = vp.format
      ]_vars

\* a 1920 x 1080 viewport resized to 800 x 600
C12_Witness ==
    /\ call.op = "resize"
    /\ call.from = <<1920, 1080>>
    /\ <<call.width, call.height>> = <<800, 600>>
    /\ <<vp.width, vp.height>> = <<800, 600>>
    /\ <<vp.color.width, vp.color.height>> = <<800, 600>>
    /\ <<vp.depth.width, vp.depth.height>> = <<800, 600>>

----------------------------------------------------------------------------
(* Claims about a draw that cannot acquire its image (Spec) *)

\* C13: a draw whose surface.get_current_texture() fails ends the program in
\* that call: no scene pass is recorded, the overlay is not invoked, nothing
\* is submitted and nothing is presented
C13_AcquireFailureIsFatal ==
    [][ (call'.op = "redraw_requested" /\ app.state = "Ready" /\ ~call'.acquired)
            => /\ status' = "panicked"
               /\ frame' # NoFrame
               /\ frame'.passes = <<>>
               /\ frame'.overlay_calls = 0
               /\ frame'.submits = 0
               /\ frame'.presents = 0
               /\ frame'.steps[Len(frame'.steps)] = "get_current_texture"
               /\ \A i \in DOMAIN frame'.steps :
                     frame'.steps[i] \notin {"render", "overlay", "submit", "present"}
      ]_vars

\* the program stopped in a draw that could not acquire its image, after a
\* draw that could
C13_Witness ==
    /\ status = "panicked"
    /\ call.op = "redraw_requested"
    /\ ~call.acquired
    /\ frame # NoFrame
    /\ frame.presents = 0
    /\ ui.camera_active

----------------------------------------------------------------------------
(* Claims about the forward axis (SpecUpdate) *)

\* only the move-forward flag is set, boost is off
OnlyForward(c) ==
    /\ c.move_forward /\ ~c.move_back /\ ~c.move_left /\ ~c.move_right
    /\ ~c.move_up /\ ~c.move_down /\ ~c.boost_speed

\* C14: at yaw 0, pitch 0 the forward vector is (1, 0, 0), and an update of
\* 1 s with only move-forward set at base speed 3.0 moves the eye by
\* (3, 0, 0) and leaves yaw and pitch as they were
C14_ForwardAtOrigin ==
    [][ ( /\ call'.op = "update" /\ call'.dt = SCALE
          /\ cam.yaw = 0 /\ cam.pitch = 0
          /\ OnlyForward(ctl) /\ ctl.base_speed = 3 * SCALE )
            => /\ forward_from_yaw_pitch(cam.yaw, cam.pitch) = Vec3(SCALE, 0, 0)
               /\ VSub(cam'.eye, cam.eye) = Vec3(3 * SCALE, 0, 0)
               /\ cam'.yaw = cam.yaw
               /\ cam'.pitch = cam.pitch
      ]_vars

\* the first update of such a camera, by 1 s: the eye is at (3, 0, 0)
C14_Witness ==
    /\ call.op = "update" /\ call.n = 1 /\ call.dt = SCALE
    /\ cam.yaw = 0 /\ cam.pitch = 0
    /\ OnlyForward(ctl)
    /\ cam.eye = Vec3(3 * SCALE, 0, 0)

----------------------------------------------------------------------------
(* Claims about the order of the steps of a draw (Spec) *)

\* C15: every draw computes dt, integrates the camera with it, uploads the
\* camera buffer once, from the integrated camera and the viewport's width
\* and height, acquires the surface image, and records the scene pass only
\* after that
C15_DrawStepOrder ==
    [][ (call'.op = "redraw_requested" /\ app.state = "Ready")
            => /\ frame' # NoFrame
               /\ frame'.dt = FrameDt(gfx, clock.now)
               /\ gfx'.camera
                    = CameraController_update(gfx.controller, gfx.camera, frame'.dt)
               /\ gfx'.camera_data
                    = update_camera_buffer(gfx'.camera, gfx.viewport.width,
                                           gfx.viewport.height)
               /\ gfx'.viewport = gfx.viewport
               /\ SubSeq(frame'.steps, 1, 3)
                    = <<"update", "write_camera_buffer", "get_current_texture">>
               /\ Cardinality(Places(frame'.steps, "write_camera_buffer")) = 1
               /\ FrameDone(frame')
                    => OnceBefore(frame'.steps, "get_current_texture", "render")
      ]_vars

\* a draw that moved the camera: the buffer holds the eye after the move
C15_Witness ==
    /\ FrameDone(frame)
    /\ frame.dt > 0
    /\ gfx.controller.move_forward
    /\ gfx.camera.eye # ZERO
    /\ gfx.camera_data.eye = gfx.camera.eye

----------------------------------------------------------------------------
(* Claims about the commands of the scene pass (SpecRender) *)

\* how many commands of a sequence satisfy Test
CountCmds(cmds, Test(_)) == Cardinality({ i \in DOMAIN cmds : Test(cmds[i]) })

----------------------------------------------------------------------------
(* Claims about Renderer3D::resize (SpecResize) *)

\* C17: a resize gives the renderer a new depth texture and a new view of
\* it, and leaves the render pipeline, the camera bind group and buffer, the
\* model bind group and buffer and the model as they were
C17_RendererResizeOnlyDepth ==
    [][ call'.op = "resize"
            => LET r == gfx.renderer
                   q == gfx'.renderer
               IN  /\ q.render_pipeline = r.render_pipeline
                   /\ q.camera_bg = r.camera_bg
                   /\ q.camera_buf = r.camera_buf
                   /\ q.model_bg = r.model_bg
                   /\ q.model_buf = r.model_buf
                   /\ q.model = r.model
                   /\ DOMAIN q = DOMAIN r
                   /\ {q.depth_tex.id, q.depth_view.id}
                        \cap {r.depth_tex.id, r.depth_view.id} = {}
                   /\ q.depth_tex.id >= gfx.device
                   /\ q.depth_view.id >= gfx.device
                   /\ q.depth_view.texture = q.depth_tex.id
      ]_vars

\* a renderer resized to 800 x 600: a new depth texture, the model it had
C17_Witness ==
    /\ call.op = "resize"
    /\ call.size = <<800, 600>>
    /\ gfx.renderer.depth_tex.id >= ViewportObjects + DepthObjects
    /\ <<gfx.renderer.depth_tex.width, gfx.renderer.depth_tex.height>> = <<800, 600>>
    /\ gfx.renderer.model = AppModel
    /\ gfx.renderer.camera_buf = "camera_buf"

----------------------------------------------------------------------------
(* Claims about mouse look (SpecCamera) *)

\* C18: a mouse-motion event (dx, dy) sets yaw to yaw - dx * 0.0025, neither
\* clamped nor wrapped, and pitch to pitch - dy * 0.0025 clamped to
\* +-(pi/2 - 0.01); any other device event leaves yaw and pitch alone; the
\* eye and the controller's flags are not touched
C18_MouseLookFormula ==
    [][ call'.op = "handle_device_event"
            => LET ev == call'.event
                   limit == FRAC_PI_2 - PitchMargin
               IN  /\ IF ev.type = "MouseMotion"
                      THEN /\ cam'.yaw = cam.yaw - ev.dx * sensitivity
                           /\ cam'.pitch
                                = Max(-limit, Min(limit, cam.pitch - ev.dy * sensitivity))
                      ELSE /\ cam'.yaw = cam.yaw
                           /\ cam'.pitch = cam.pitch
                   /\ cam'.eye = cam.eye
                   /\ ctl' = ctl
      ]_vars

\* mouse motion has turned the camera past a quarter turn and moved the
\* pitch to a value inside the limits
C18_Witness ==
    /\ call.op = "handle_device_event"
    /\ call.event.type = "MouseMotion"
    /\ Abs(cam.yaw) > FRAC_PI_2
    /\ cam.pitch # 0
    /\ Abs(cam.pitch) < max_pitch

----------------------------------------------------------------------------
(* Claims about the axes of movement (SpecUpdate) *)

\* the directional flags that are set
HeldFlags(c) == { f \in Flags \ {"boost_speed"} : c[f] }

\* C19: an update with no vertical flag set leaves the eye's y coordinate as
\* it was, whatever the yaw and the pitch; an update with only move_up (only
\* move_down) set moves the eye by speed * dt up (down) the world's y axis
\* and leaves x and z as they were
C19_HorizontalAndVerticalAxes ==
    [][ call'.op = "update"
            => LET d == VSub(cam'.eye, cam.eye)
                   held == HeldFlags(ctl)
                   step == FMul(ClaimSpeed(ctl), call'.dt)
               IN  /\ held \subseteq {"move_forward", "move_back", "move_left",
                                      "move_right"}
                        => d[2] = 0
                   /\ held = {"move_up"} => d = Vec3(0, step, 0)
                   /\ held = {"move_down"} => d = Vec3(0, -step, 0)
      ]_vars

\* a forward update of a camera that looks steeply up: it moved, and stayed
\* at its height
C19_Witness ==
    /\ call.op = "update"
    /\ HeldFlags(ctl) = {"move_forward"}
    /\ cam.pitch = max_pitch
    /\ cam.eye # ZERO
    /\ cam.eye[2] = 0

----------------------------------------------------------------------------
(* Claims about the life of the session (Spec) *)

EventOps == {"redraw_requested", "resized", "window_event", "device_event"}

\* C20: the application starts in Init; resumed creates the window and the
\* Graphics only while the proxy is there, and takes it, so a later resumed
\* creates nothing; the application becomes Ready in user_event only, with
\* the Graphics that was sent, and never leaves Ready; in Init a redraw, a
\* resize, a window event and a device event draw nothing and leave the
\* Graphics that waits to be delivered as it is
C20_SessionLifecycle ==
    [][ /\ call.op = "new" => (app.state = "Init" /\ gfx = None /\ window = None)
        /\ (call'.op = "resumed" /\ call'.created)
            => /\ app.state = "Init" /\ app.proxy /\ ~app'.proxy
               /\ window = None /\ inbox = None /\ gfx = None
               /\ inbox' # None
        /\ (call'.op = "resumed" /\ ~call'.created)
            => /\ ~app.proxy \/ app.state = "Ready"
               /\ window' = window /\ inbox' = inbox /\ gfx' = gfx /\ app' = app
        /\ ~app.proxy => ~app'.proxy
        /\ (app.state = "Init" /\ app'.state = "Ready")
            => /\ call'.op = "user_event"
               /\ inbox # None
               /\ gfx' = inbox[1]
               /\ inbox' = None
        /\ app.state = "Ready" => app'.state = "Ready"
        /\ (app.state = "Init" /\ call'.op \in EventOps)
            => /\ frame' = NoFrame
               /\ gfx' = gfx /\ inbox' = inbox /\ ready' = ready
               /\ app'.state = "Init"
      ]_vars

\* mouse motion handled in Init while the created Graphics waits to be
\* delivered: its camera is as constructed
C20_Witness ==
    /\ app.state = "Init"
    /\ inbox # None
    /\ call.op = "device_event"
    /\ call.event.type = "MouseMotion"
    /\ ~call.forwarded
    /\ inbox[1].camera = InitCamera

----------------------------------------------------------------------------
(* Claims about CloseRequested (Spec) *)

\* C21: CloseRequested asks the event loop to exit in the Init and in the
\* Ready state alike, and handling it draws nothing, resizes nothing and
\* passes nothing to the camera controller
C21_CloseRequestsExit ==
    [][ call'.op = "close_requested"
            => /\ status' = "exiting"
               /\ frame' = NoFrame
               /\ gfx' = gfx
               /\ inbox' = inbox
               /\ ready' = ready
               /\ ui' = ui
               /\ app' = app
               /\ render_target' = render_target
      ]_vars

\* the window was closed in camera mode with W held: the Graphics is there,
\* the flag is still set, the loop was asked to exit
C21_Witness ==
    /\ status = "exiting"
    /\ call.op = "close_requested"
    /\ app.state = "Ready"
    /\ ui.camera_active
    /\ gfx.controller.move_forward

----------------------------------------------------------------------------
(* Claims about render without materials (SpecRender) *)

\* C22: render on a model with no materials fails when the model has a mesh,
\* before a material is bound or a draw issued, and returns with no draw
\* when the model has no mesh
C22_EmptyMaterialsUndefended ==
    (call.op = "render" /\ Len(renderer.model.materials) = 0) =>
        LET cmds == encoder.passes[1].commands
        IN  /\ Len(encoder.passes) = 1
            /\ Cardinality({ i \in DOMAIN cmds : cmds[i].cmd = "draw_indexed" }) = 0
            /\ MaterialBinds(encoder.passes[1]) = <<>>
            /\ encoder.panicked <=> Len(renderer.model.meshes) >= 1

\* render failed on a model of two meshes and no material
C22_Witness ==
    /\ call.op = "render"
    /\ Len(renderer.model.materials) = 0
    /\ Len(renderer.model.meshes) = 2
    /\ encoder.panicked

----------------------------------------------------------------------------
(* Claims about held keys and the camera mode (Spec) *)

\* the event is a key press or release that is not an auto-repeat
KeyEdge(event) == event.type = "KeyboardInput" /\ ~event.repeat

\* C23: every draw integrates the controller's flags whether camera mode is
\* active or not: a draw with time to integrate moves the eye whenever a
\* direction is held and changes no flag; the Escape press that ends camera
\* mode and every window event that arrives while camera mode is off leave
\* the flags as they are; the flags change only by a non-repeat key event
\* that is forwarded while camera mode is active
C23_FlagsOutliveCameraMode ==
    [][ app.state = "Ready" /\ app'.state = "Ready" =>
          /\ call'.op = "redraw_requested" =>
                /\ gfx'.controller = gfx.controller
                /\ (NetIntent(gfx.controller) /\ frame'.dt > 0)
                       => gfx'.camera.eye # gfx.camera.eye
          /\ (call'.op = "window_event" /\ ~ui'.camera_active) =>
                /\ ~call'.forwarded
                /\ gfx'.controller = gfx.controller
          /\ gfx'.controller # gfx.controller =>
                /\ call'.op = "window_event" /\ call'.forwarded
                /\ ui.camera_active /\ ui'.camera_active
                /\ KeyEdge(call'.event) ]_vars

\* W is still held after Escape ended camera mode, and a draw has moved the
\* eye with camera mode off
C23_Witness ==
    /\ app.state = "Ready" /\ call.op = "redraw_requested"
    /\ status = "running"
    /\ ~ui.camera_active
    /\ gfx.controller.move_forward
    /\ frame.dt > 0
    /\ gfx.camera.eye # ZERO

----------------------------------------------------------------------------
(* Claims about the frame clock (Spec) *)

\* C24: every draw, capped or not and completed or not, sets last_frame_time
\* to the instant it sampled, and its dt is the time since last_frame_time
\* (the start of the preceding draw, or the creation of the Graphics) capped
\* at 0.1; no other handler moves last_frame_time, so the time cut off by the
\* cap is counted in no later frame
C24_FrameClockRestarts ==
    [][ /\ (call'.op = "resumed" /\ call'.created)
              => inbox'[1].last_frame_time = clock.now
        /\ call'.op = "user_event"
              => gfx'.last_frame_time = inbox[1].last_frame_time
        /\ (app.state = "Ready" /\ app'.state = "Ready") =>
              IF call'.op = "redraw_requested"
              THEN /\ gfx'.last_frame_time = clock.now
                   /\ frame'.dt = Min(as_secs_f32(clock.now - gfx.last_frame_time),
                                      MaxDt)
              ELSE gfx'.last_frame_time = gfx.last_frame_time ]_vars

\* a draw five seconds after the Graphics was created integrated 0.1 and
\* restarted the frame clock at its own instant
C24_Witness ==
    /\ app.state = "Ready" /\ call.op = "redraw_requested"
    /\ frame.dt = MaxDt
    /\ clock.now > 1000000
    /\ gfx.last_frame_time = clock.now

----------------------------------------------------------------------------
(* Claims about which operation writes which state (SpecGraphics) *)

\* C25: handle_window_event changes neither eye nor yaw nor pitch;
\* handle_device_event changes neither the eye nor any flag nor base_speed;
\* the update of a draw changes neither yaw nor pitch nor any flag nor
\* base_speed, and leaves the eye where it is when no direction is held or
\* the held directions cancel out; resize changes neither the camera nor the
\* flags
C25_DisjointState ==
    [][ /\ call'.op = "handle_window_event" => gfx'.camera = gfx.camera
        /\ call'.op = "handle_device_event" =>
              /\ gfx'.camera.eye = gfx.camera.eye
              /\ gfx'.controller = gfx.controller
        /\ call'.op = "draw" =>
              /\ gfx'.camera.yaw = gfx.camera.yaw
              /\ gfx'.camera.pitch = gfx.camera.pitch
              /\ gfx'.controller = gfx.controller
              /\ ~NetIntent(gfx.controller) => gfx'.camera.eye = gfx.camera.eye
        /\ call'.op = "resize" =>
              /\ gfx'.camera = gfx.camera
              /\ gfx'.controller = gfx.controller ]_vars

\* a draw with W and S both held, after the mouse turned the camera, has
\* integrated a tenth of a second and left the eye at the origin
C25_Witness ==
    /\ call.op = "draw"
    /\ gfx.controller.move_forward /\ gfx.controller.move_back
    /\ ~gfx.controller.move_right
    /\ gfx.camera.yaw # 0 /\ gfx.camera.pitch # 0
    /\ frame.dt = MaxDt
    /\ gfx.camera.eye = ZERO

----------------------------------------------------------------------------
(* Claims about the camera mode and the cursor grab (Spec) *)

\* a pending grab request names the current camera mode
GrabRequestAgrees(u) ==
    u.cursor_grab_request # None => u.cursor_grab_request = Some(u.camera_active)

\* the event is the Escape key going down, not auto-repeated
EscapePress(event) ==
    /\ KeyEdge(event)
    /\ event.physical_key = "Escape"
    /\ event.state = "Pressed"

\* C26: camera_active turns true only in a draw whose UI pass met a
\* double-click on the viewport while it was false, and such a draw turns it
\* true, requests the grab and applies it; it turns false only by a
\* non-repeat Escape press while it was true, and such a press turns it false
\* and leaves the request Some(false); a pending request always equals
\* camera_active; every draw_editor call leaves the request None
C26_CameraModeTransitions ==
    [][ /\ GrabRequestAgrees(ui) /\ GrabRequestAgrees(ui')
        /\ (~ui.camera_active /\ ui'.camera_active) =>
              /\ call'.op = "redraw_requested" /\ call'.double_clicked
              /\ app.state = "Ready"
        /\ (ui.camera_active /\ ~ui'.camera_active) =>
              /\ call'.op = "window_event" /\ EscapePress(call'.event)
              /\ app.state = "Ready"
        /\ (call'.op = "redraw_requested" /\ app.state = "Ready") =>
              /\ ui'.cursor_grab_request = None
              /\ (call'.double_clicked /\ ~ui.camera_active) =>
                    /\ ui'.camera_active
                    /\ window'.cursor_grab = "Confined" /\ ~window'.cursor_visible
        /\ ( /\ call'.op = "window_event" /\ app.state = "Ready"
             /\ EscapePress(call'.event) /\ ui.camera_active ) =>
              /\ ~ui'.camera_active
              /\ ui'.cursor_grab_request = Some(FALSE) ]_vars

\* Escape ended a camera mode that a double-click had started: the release
\* of the cursor is requested and the cursor is still confined
C26_Witness ==
    /\ call.op = "window_event" /\ EscapePress(call.event)
    /\ ~ui.camera_active
    /\ ui.cursor_grab_request = Some(FALSE)
    /\ window.cursor_grab = "Confined" /\ ~window.cursor_visible

----------------------------------------------------------------------------
(* Claims about the frame deadline (FairSpec) *)

\* the deadline is due for a running, ready application
DueInReady ==
    /\ app.state = "Ready" /\ status = "running"
    /\ render_target <= clock.now

\* a redraw of the window is requested
RedrawPending == window # None /\ window.redraw_requested

\* the clock is further ahead of the deadline than new_events is followed
Stalled == clock.now - render_target > MaxLag * FRAME_TIME

\* C27: render_target never decreases; new_events advances it by exactly
\* FRAME_TIME when it is due and leaves it alone otherwise; after a
\* RedrawRequested handler that returned, render_target is strictly later
\* than the instant the handler sampled; in the Ready state a handler that
\* finds the deadline due, new_events or RedrawRequested after its draw,
\* requests a redraw; so a due deadline in the Ready state always leads to a
\* requested redraw, for as long as the application runs
C27_FramePacing ==
    /\ [][ /\ render_target' >= render_target
           /\ call'.op = "new_events" =>
                 render_target' = IF render_target <= clock.now
                                  THEN render_target + FRAME_TIME
                                  ELSE render_target
           /\ (call'.op = "redraw_requested" /\ status' = "running") =>
                 render_target' > clock.now
           /\ ( /\ call'.op \in {"new_events", "redraw_requested"}
                /\ DueInReady /\ status' = "running" ) =>
                 window'.redraw_requested ]_vars
    /\ DueInReady ~> (RedrawPending \/ status # "running" \/ Stalled)

\* new_events found the deadline due twice at one clock reading, moved it one
\* frame time each time, and a redraw is requested
C27_Witness ==
    /\ call.op = "new_events" /\ call.due
    /\ app.state = "Ready"
    /\ clock.now = FRAME_TIME
    /\ render_target = 2 * FRAME_TIME
    /\ window.redraw_requested

====
